---- MODULE Spec2Model ----
(***************************************************************************)
(* Grade_Genius_AI_backend: the /process-quiz OCR endpoint (server.ts: the *)
(* cooperative OCR lock, the shared naming context, the engine cascade and *)
(* the OCR adapters) and the composite Solution/Best/Avg/Low selection     *)
(* (SBAW.ts).                                                              *)
(*                                                                         *)
(* Text is a sequence of one-character strings, so that the regular        *)
(* expressions of the source are modelled by what they do to characters.   *)
(* One action is one run-to-completion segment of the event loop: the code *)
(* between two awaits.                                                     *)
(***************************************************************************)
EXTENDS Integers, Sequences, FiniteSets, TLC

\* ------------------------------------------------------------------------
\* Bounds of the model
\* ------------------------------------------------------------------------
\* the most pages a downloaded quiz PDF has
MaxPages == 2

\* the concurrent request slots of POST /process-quiz/:id
Reqs == {"r1", "r2"}

\* a value that may be missing (null or undefined) is the empty set or a singleton
None == {}
Some(x) == {x}
Get(m) == CHOOSE x \in m : TRUE

\* ------------------------------------------------------------------------
\* Characters and text
\* ------------------------------------------------------------------------
Lower == {"a","b","c","d","e","f","g","h","i","j","k","l","m",
          "n","o","p","q","r","s","t","u","v","w","x","y","z"}
Upper == {"A","B","C","D","E","F","G","H","I","J","K","L","M",
          "N","O","P","Q","R","S","T","U","V","W","X","Y","Z"}
Digit == {"0","1","2","3","4","5","6","7","8","9"}
Alnum == Lower \cup Upper \cup Digit
\* the other characters of \x20-\x7E that the sample texts use
Punct == {" ", "_", "-", ":", ".", "!", "#", "'"}
Printable == Alnum \cup Punct
\* \s of the regular expressions
White == {" ", "\n", "\t", "\r"}

Rep(c, n) == [i \in 1..n |-> c]

Keep(s, S) == SelectSeq(s, LAMBDA c : c \in S)

\* the positions of s, in order
Positions(s) == [i \in 1..Len(s) |-> i]

\* position i of s lies in a run of at least two whitespace characters
InWsRun(s, i) ==
  /\ s[i] \in White
  /\ \/ i > 1 /\ s[i - 1] \in White
     \/ i < Len(s) /\ s[i + 1] \in White

\* .replace(/\s{2,}/g, " "): a run of two or more becomes one space
CollapseWs(s) ==
  LET kept == SelectSeq(Positions(s),
                        LAMBDA i : ~InWsRun(s, i) \/ i = 1 \/ s[i - 1] \notin White)
  IN [j \in 1..Len(kept) |-> IF InWsRun(s, kept[j]) THEN " " ELSE s[kept[j]]]

\* s without the characters of S it starts and ends with
Strip(s, S) ==
  IF \A i \in 1..Len(s) : s[i] \in S THEN <<>>
  ELSE LET first == CHOOSE i \in 1..Len(s) :
                      s[i] \notin S /\ \A h \in 1..(i - 1) : s[h] \in S
           last  == CHOOSE i \in 1..Len(s) :
                      s[i] \notin S /\ \A h \in (i + 1)..Len(s) : s[h] \in S
       IN SubSeq(s, first, last)

\* String.prototype.trim
Trim(s) == Strip(s, White)

\* (s || ""): a missing string reads as the empty one
OrEmpty(m) == IF m = None THEN <<>> ELSE Get(m)

stripGarbage(s) == Trim(CollapseWs(Keep(s, Printable \cup {"\n"})))

\* .replace(/\n{3,}/g, "\n\n"): the third and later newlines of a run go
CollapseNewlines(s) ==
  LET kept == SelectSeq(Positions(s),
                        LAMBDA i : ~(/\ s[i] = "\n"
                                     /\ i > 2
                                     /\ s[i - 1] = "\n"
                                     /\ s[i - 2] = "\n"))
  IN [j \in 1..Len(kept) |-> s[kept[j]]]

cleanExtractedText(text) ==
  Trim(CollapseNewlines(CollapseWs(Keep(text, Printable \cup {"\n"}))))

\* the least number of alphanumerics of a meaningful text
MeaningfulMin == 30

\* isMeaningful
\* (a variant that asks for more than MeaningfulMin alphanumerics)
isMeaningfulOver(s) == Len(Keep(s, Alnum)) > MeaningfulMin
isMeaningful(s) == Len(Keep(s, Alnum)) >= MeaningfulMin

\* a page of a vision-language-model adapter is kept when longer than this
PageMin == 20

NL2 == <<"\n", "\n">>

\* sample texts of a provider, a parser or an OCR pass: one with characters
\* stripGarbage removes, longer than PageMin as it comes and of exactly PageMin
\* characters once sanitized, one over PageMin that is not meaningful, and a
\* meaningful one
TxtDirty == <<"\t", " ">> \o Rep("N", 17) \o <<"o", " ", " ", "\n", "\n", "x", "\r">>
TxtMid   == Rep("a", 25)
TxtLong  == Rep("b", 28) \o <<" ", "\n">> \o Rep("7", 2)


\* ------------------------------------------------------------------------
\* slugify and the sentinel names of the OCR header instruction
\* ------------------------------------------------------------------------
UpperSeq == <<"A","B","C","D","E","F","G","H","I","J","K","L","M",
              "N","O","P","Q","R","S","T","U","V","W","X","Y","Z">>
LowerSeq == <<"a","b","c","d","e","f","g","h","i","j","k","l","m",
              "n","o","p","q","r","s","t","u","v","w","x","y","z">>

LowerChar(c) ==
  IF c \in Upper THEN LowerSeq[CHOOSE i \in 1..Len(UpperSeq) : UpperSeq[i] = c] ELSE c

\* String.prototype.toLowerCase
toLowerCase(s) == [i \in 1..Len(s) |-> LowerChar(s[i])]

\* .replace(/\s+/g, "_"): a run of whitespace becomes one underscore
WsToUnderscore(s) ==
  LET kept == SelectSeq(Positions(s),
                        LAMBDA i : s[i] \notin White \/ i = 1 \/ s[i - 1] \notin White)
  IN [j \in 1..Len(kept) |-> IF s[kept[j]] \in White THEN "_" ELSE s[kept[j]]]

slugify(s) ==
  Keep(WsToUnderscore(Trim(toLowerCase(s))), Lower \cup Digit \cup {"_", "-"})

\* .replace(/^_+|_+$/g, "")
StripUnderscores(s) == Strip(s, {"_"})

SolutionPrefix == <<"s","o","l","u","t","i","o","n","_","p","a","p","e","r","_">>
UnknownPrefix  == <<"u","n","k","n","o","w","n","_">>

\* a field of an object that may lack it
Field(obj, f) == IF f \in DOMAIN obj THEN obj[f] ELSE None

\* `${prefix}${titleSlug}${sectionSlug ? "_" + sectionSlug : ""}`.replace(/^_+|_+$/g, "")
SentinelName(prefix, ctx) ==
  LET titleSlug   == slugify(OrEmpty(Field(ctx, "quizTitle")))
      sectionSlug == slugify(OrEmpty(Field(ctx, "section")))
  IN StripUnderscores(
       prefix \o titleSlug \o (IF sectionSlug # <<>> THEN <<"_">> \o sectionSlug ELSE <<>>))

Max(a, b) == IF a >= b THEN a ELSE b
Min(a, b) == IF a <= b THEN a ELSE b

\* the instruction page idx of a vision-language-model adapter is sent with
\* (a variant that asks every page for a header)
HeaderRulesEveryPage(ctx, idx) ==
  LET isSolutionForThisPaper == ctx.firstIsSolution /\ idx = 0
  IN [kind |-> "header", solution |-> isSolutionForThisPaper,
      value |-> IF isSolutionForThisPaper
                THEN SentinelName(SolutionPrefix, ctx)
                ELSE SentinelName(UnknownPrefix, ctx)]
HeaderRules(ctx, idx) ==
  LET isFirstPageAbsolute    == idx = 0
      isFirstInStudentBlock  == (idx % Max(1, ctx.pagesPerStudent)) = 0
      isSolutionForThisPaper == ctx.firstIsSolution /\ isFirstPageAbsolute
  IN IF isFirstInStudentBlock
     THEN [kind |-> "header", solution |-> isSolutionForThisPaper,
           value |-> IF isSolutionForThisPaper
                     THEN SentinelName(SolutionPrefix, ctx)
                     ELSE SentinelName(UnknownPrefix, ctx)]
     ELSE [kind |-> "raw"]

\* ------------------------------------------------------------------------
\* The quizzes table and the shared naming context
\* ------------------------------------------------------------------------
\* the rows of the quizzes table (extracted_text is the variable below)
QuizRow ==
  [q1 |-> [title |-> Some(<<"Q","u","i","z"," ","1">>), section |-> Some(<<"B">>),
           no_of_pages |-> Some(2), read_first_paper_is_solution |-> Some(FALSE)],
   q2 |-> [title |-> None, section |-> Some(<<>>),
           no_of_pages |-> None, read_first_paper_is_solution |-> None]]
QuizIds == DOMAIN QuizRow

\* req.params.id: not a UUID, a UUID of no quiz, the quizzes
IdParams == {"not-a-uuid", "q0"} \cup QuizIds
isUUID(v) == v \in {"q0"} \cup QuizIds

allowedEngines == {"auto", "vision-pdf", "images", "tesseract", "openai-ocr", "gemini-ocr"}
\* req.query.engine: missing, unknown, or an engine
EngineParams == {None, Some("paddle")} \cup {Some(e) : e \in allowedEngines}

\* let CURRENT_OCR_CTX = { firstIsSolution: false, pagesPerStudent: 1 }
InitialCtx == [firstIsSolution |-> FALSE, pagesPerStudent |-> 1]

\* the value /process-quiz resets the context to
NeutralCtx ==
  [firstIsSolution |-> FALSE, quizTitle |-> None, section |-> None, pagesPerStudent |-> 1]

\* (x || null) of a string column
OrNull(m) == IF m = None \/ m = Some(<<>>) THEN None ELSE m

\* Math.max(1, Number(quiz.no_of_pages || 1))
PagesPerStudentOf(row) ==
  Max(1, IF row.no_of_pages = None \/ row.no_of_pages = Some(0) THEN 1 ELSE Get(row.no_of_pages))

\* the context /process-quiz writes for a quiz row
QuizCtx(row) ==
  [firstIsSolution |-> row.read_first_paper_is_solution # Some(FALSE),
   quizTitle       |-> OrNull(row.title),
   section         |-> OrNull(row.section),
   pagesPerStudent |-> PagesPerStudentOf(row)]


\* ------------------------------------------------------------------------
\* State of the server process and of the /process-quiz requests
\* ------------------------------------------------------------------------
VARIABLES
  world,             \* the environment of the run: see Worlds
  OCR_LOCKED,        \* the module-level lock flag
  CURRENT_OCR_CTX,   \* the module-level naming context
  extracted_text,    \* quizzes.extracted_text, by quiz id
  files,             \* the rasterized and derived image files in os.tmpdir()
  pc,                \* where each request is suspended
  quizId,            \* req.params.id once read
  engine,            \* the engine once validated
  pages,             \* the number of pages of the downloaded PDF
  extractedText,     \* the handler's local extractedText
  ad,                \* the locals of the adapter the request is inside
  calls,             \* the adapters the run invoked, with the gate of each result
  handed,            \* what the last adapter handed to the cascade, and how
  resp               \* the response sent, if any

\* State of one POST /build-sbab/:id request (src/Dockerfile, SBAW.ts)
VARIABLES
  sbPc,              \* where the build is: idle, select, download, build, upload, done
  quiz,              \* the quizzes row selectFromFormattedAndBuild got
  pageCount,         \* srcDoc.getPageCount()
  selection,         \* what selectFromFormattedAndBuild returned
  order,             \* the labelled pages of the output document
  uploaded,          \* the documents uploaded to the graded bucket
  sbResp             \* the response sent, if any

sbVars == <<sbPc, quiz, pageCount, selection, order, uploaded, sbResp>>

\* State of one call of mapPagesToStudents (src/green_page_map.ts)
VARIABLES
  mapArgs,           \* the arguments: pageCount, students, page_texts
  mapLocals,         \* the locals of the call: inferredBlocks, and the evenSplit it made
  mapRet             \* what the call returned, if it has

mapVars == <<mapArgs, mapLocals, mapRet>>

\* State of one POST /build-green-graded/:id request (src/green_page_map.ts)
VARIABLES
  gnPc,              \* where the build is: idle, select, download, load, pages, save, upload, done
  gnQuiz,            \* the quizzes row buildGreenMergedPdf got
  gnPageCount,       \* src.getPageCount()
  gnOut,             \* the pages of the out document, with the record each is annotated for
  gnStored,          \* the documents uploaded to the graded bucket
  gnResp             \* the response sent, if any

gnVars == <<gnPc, gnQuiz, gnPageCount, gnOut, gnStored, gnResp>>

\* State of one call of isMeaningful (src/Dockerfile, server.ts)
VARIABLES
  gateArg,           \* the argument: a string, or none
  gateRet            \* what the call returned, if it has

gateVars == <<gateArg, gateRet>>

\* State of one merge of the image variants of a page (src/Dockerfile, server.ts)
VARIABLES
  mergeArg,          \* the best text of each existing variant, in variant order
  mergeRet           \* the merged page text, once merged

mvVars == <<mergeArg, mergeRet>>

\* State of one request to /build-graded-pack (src/src/grader.ts)
VARIABLES
  packQuiz,          \* the quizzes row and the grades rows of the quiz
  packAt,            \* where the handler is
  packPicked,        \* the summaries chosen for the four roles, once chosen
  packResp           \* the status of the response, once sent

packVars == <<packQuiz, packAt, packPicked, packResp>>

\* what no step of /process-quiz touches
elsewhere == <<world, sbVars, mapVars, gnVars, gateVars, mvVars, packVars>>

ocrVars == <<world, OCR_LOCKED, CURRENT_OCR_CTX, extracted_text, files, pc, quizId, engine,
             pages, extractedText, ad, calls, handed, resp>>

\* what no step of /build-sbab touches
outsideSbab == <<ocrVars, mapVars, gnVars, gateVars, mvVars, packVars>>

\* what the call of mapPagesToStudents leaves alone, and what no step of
\* /build-green-graded touches
outsideMap == <<ocrVars, sbVars, gnVars, gateVars, mvVars, packVars>>
outsideGreen == <<ocrVars, sbVars, mapVars, gateVars, mvVars, packVars>>

\* The environments the endpoint is checked in (the value of world). "concurrent": every request slot
\* sends a request, the providers answer nothing or the meaningful sample, and a
\* vision-language-model adapter fails at its rasterization or not at all;
\* "single": one request, the providers answer any of the samples, and the
\* preprocessing and the requests of a page may throw as well.
\* the preprocessing or a request of a page may throw inside the page loop
MidPageThrows == world = "single"
\* the warnings of the OpenAI adapter's page loop, and the last error text they
\* quote, are kept readable in the "single" environment only
WarningsKept == world = "single"

\* "live": the slots are reused by requests that keep arriving, each for no
\* quiz or for quiz q2, with the engine left out or unknown
RequestIds == IF world = "live" THEN {"not-a-uuid", "q2"} ELSE IdParams
RequestEngines == IF world = "live" THEN {None, Some("paddle")} ELSE EngineParams

\* the request slot of the "single" environment
Lone == {"r1"}

\* the texts a provider, a parser or an OCR pass answers with
RawTexts == IF world = "single" THEN {TxtDirty, TxtMid, TxtLong} ELSE {TxtLong}

NoAd   == [name |-> "none"]
NoResp == [status |-> 0]
NoHand == [text |-> <<>>, threw |-> FALSE]

\* the request is between a completed acquireOcrLock() and its releaseOcrLock()
Holding(r) == pc[r] \in {"validate", "select", "download", "cascade", "update"}

\* the request is in flight
InFlight(r) == pc[r] \notin {"idle", "done"}

OcrInit ==
  /\ OCR_LOCKED = FALSE
  /\ CURRENT_OCR_CTX = InitialCtx
  /\ extracted_text = [q \in QuizIds |-> <<>>]
  /\ files = {}
  /\ pc = [r \in Reqs |-> "idle"]
  /\ quizId = [r \in Reqs |-> "-"]
  /\ engine = [r \in Reqs |-> "-"]
  /\ pages = [r \in Reqs |-> 0]
  /\ extractedText = [r \in Reqs |-> <<>>]
  /\ ad = [r \in Reqs |-> NoAd]
  /\ calls = [r \in Reqs |-> <<>>]
  /\ handed = [r \in Reqs |-> NoHand]
  /\ resp = [r \in Reqs |-> NoResp]

\* ------------------------------------------------------------------------
\* acquireOcrLock / releaseOcrLock
\* ------------------------------------------------------------------------
\* one evaluation of `while (OCR_LOCKED)`: sleep 50 ms, or leave the loop and lock
\* (a variant without the while loop: the flag is set untested)
acquireOcrLockNoWait(r) ==
  /\ OCR_LOCKED' = TRUE
  /\ pc' = [pc EXCEPT ![r] = "validate"]
acquireOcrLock(r) ==
  IF OCR_LOCKED
  THEN /\ pc' = [pc EXCEPT ![r] = "sleep"]
       /\ UNCHANGED OCR_LOCKED
  ELSE /\ OCR_LOCKED' = TRUE
       /\ pc' = [pc EXCEPT ![r] = "validate"]

releaseOcrLock == OCR_LOCKED' = FALSE

\* the response is sent and the handler's locals are gone
End(r, response) ==
  /\ resp' = [resp EXCEPT ![r] = response]
  /\ pc' = [pc EXCEPT ![r] = "done"]
  /\ quizId' = [quizId EXCEPT ![r] = "-"]
  /\ engine' = [engine EXCEPT ![r] = "-"]
  /\ pages' = [pages EXCEPT ![r] = 0]
  /\ extractedText' = [extractedText EXCEPT ![r] = <<>>]
  /\ ad' = [ad EXCEPT ![r] = NoAd]
  /\ calls' = [calls EXCEPT ![r] = <<>>]
  /\ handed' = [handed EXCEPT ![r] = NoHand]

Err(status, message) == [status |-> status, error |-> message]

\* the request ends: the response is sent, then the finally block releases the lock
Finish(r, response) == End(r, response) /\ releaseOcrLock

\* a throw inside the handler's try: the catch answers 500, then the finally block
\* (a variant without the finally block)
ThrowNoFinally(r, message) == End(r, Err(500, message)) /\ UNCHANGED OCR_LOCKED
Throw(r, message) == Finish(r, Err(500, message))

\* a POST /process-quiz/:id arrives and its handler calls acquireOcrLock()
Arrive(r) ==
  /\ pc[r] = "idle"
  /\ acquireOcrLock(r)
  /\ UNCHANGED <<elsewhere, CURRENT_OCR_CTX, extracted_text, files, quizId, engine, pages,
                 extractedText, ad, calls, handed, resp>>

\* the 50 ms timer of the poll loop fires
Wake(r) ==
  /\ pc[r] = "sleep"
  /\ acquireOcrLock(r)
  /\ UNCHANGED <<elsewhere, CURRENT_OCR_CTX, extracted_text, files, quizId, engine, pages,
                 extractedText, ad, calls, handed, resp>>

\* ------------------------------------------------------------------------
\* The handler up to the cascade
\* ------------------------------------------------------------------------
\* validation of the id and of the engine, then the quiz row is queried
Validate(r) ==
  /\ pc[r] = "validate"
  /\ \E id \in RequestIds, e \in RequestEngines :
       LET eng == IF e = None THEN "auto" ELSE Get(e) IN
       IF ~isUUID(id)
       THEN /\ Finish(r, Err(400, "Invalid quiz id"))
            /\ UNCHANGED <<elsewhere, CURRENT_OCR_CTX, extracted_text, files>>
       ELSE IF eng \notin allowedEngines
       THEN /\ Finish(r, Err(400, "Invalid engine"))
            /\ UNCHANGED <<elsewhere, CURRENT_OCR_CTX, extracted_text, files>>
       ELSE /\ quizId' = [quizId EXCEPT ![r] = id]
            /\ engine' = [engine EXCEPT ![r] = eng]
            /\ pc' = [pc EXCEPT ![r] = "select"]
            /\ UNCHANGED <<elsewhere, OCR_LOCKED, CURRENT_OCR_CTX, extracted_text, files, pages,
                           extractedText, ad, calls, handed, resp>>

\* the fixed adapter sequence of an engine mode
\* (a variant whose automatic mode runs the images adapter third)
CascadeSeqImagesEarly(e) ==
  CASE e = "vision-pdf" -> <<"visionPdf", "images", "tesseract">>
    [] e = "images"     -> <<"images", "tesseract">>
    [] e = "tesseract"  -> <<"tesseract">>
    [] e = "openai-ocr" -> <<"openai", "tesseract">>
    [] e = "gemini-ocr" -> <<"gemini", "tesseract">>
    [] OTHER            -> <<"pdfParse", "visionPdf", "images", "openai", "gemini", "tesseract">>
CascadeSeq(e) ==
  CASE e = "vision-pdf" -> <<"visionPdf", "images", "tesseract">>
    [] e = "images"     -> <<"images", "tesseract">>
    [] e = "tesseract"  -> <<"tesseract">>
    [] e = "openai-ocr" -> <<"openai", "tesseract">>
    [] e = "gemini-ocr" -> <<"gemini", "tesseract">>
    [] OTHER            -> <<"pdfParse", "visionPdf", "openai", "gemini", "images", "tesseract">>

\* the locals of an adapter at its first await
AdStart(a) ==
  CASE a = "pdfParse"  -> [name |-> a, at |-> "parse"]
    [] a = "visionPdf" -> [name |-> a, at |-> "batch"]
    [] OTHER           -> [name |-> a, at |-> "convert"]

\* the cascade goes on to the next adapter after a result
GoesOn(txt) == ~isMeaningful(txt)

\* an adapter's try-wrapper hands txt to the cascade: the next `if` of the chain
\* invokes the next adapter, or the chain is over and the run resets the context,
\* cleans the text and issues the update
Hand(r, txt, threw) ==
  LET k    == Len(calls[r])
      seq  == CascadeSeq(engine[r])
      past == [calls[r] EXCEPT ![k].ok = Some(isMeaningful(txt))]
  IN /\ handed' = [handed EXCEPT ![r] = [text |-> txt, threw |-> threw]]
     /\ IF k < Len(seq) /\ GoesOn(txt)
        THEN /\ calls' = [calls EXCEPT ![r] = Append(past, [name |-> seq[k + 1], ok |-> None])]
             /\ ad' = [ad EXCEPT ![r] = AdStart(seq[k + 1])]
             /\ extractedText' = [extractedText EXCEPT ![r] = txt]
             /\ UNCHANGED <<elsewhere, OCR_LOCKED, CURRENT_OCR_CTX, pc, resp, quizId, engine, pages,
                            extracted_text>>
        ELSE /\ calls' = [calls EXCEPT ![r] = past]
             /\ ad' = [ad EXCEPT ![r] = NoAd]
             /\ CURRENT_OCR_CTX' = NeutralCtx
             /\ extractedText' = [extractedText EXCEPT ![r] = cleanExtractedText(txt)]
             /\ pc' = [pc EXCEPT ![r] = "update"]
             /\ UNCHANGED <<elsewhere, OCR_LOCKED, resp, quizId, engine, pages, extracted_text>>

\* the adapter returns txt
Return(r, txt) == Hand(r, txt, FALSE)

\* an exception reaches the catch of the adapter's try-wrapper (or the adapter's
\* own outer catch): the cascade gets ""
\* (a variant without the wrappers: the exception reaches the handler's catch)
AdapterThrewUncaught(r) ==
  /\ Throw(r, "adapter failed")
  /\ UNCHANGED <<elsewhere, CURRENT_OCR_CTX, extracted_text>>
AdapterThrew(r) == Hand(r, <<>>, TRUE)

\* the quiz row arrives, or does not
SelectDone(r) ==
  /\ pc[r] = "select"
  /\ \E quizError \in BOOLEAN :
       IF quizError \/ quizId[r] \notin QuizIds
       THEN /\ Finish(r, Err(404, "Quiz not found"))
            /\ UNCHANGED <<elsewhere, CURRENT_OCR_CTX, extracted_text, files>>
       ELSE /\ pc' = [pc EXCEPT ![r] = "download"]
            /\ UNCHANGED <<elsewhere, OCR_LOCKED, CURRENT_OCR_CTX, extracted_text, files, quizId,
                           engine, pages, extractedText, ad, calls, handed, resp>>

\* the PDF arrives (or the download fails); the context is written and the first
\* adapter of the engine's chain is invoked
DownloadDone(r) ==
  /\ pc[r] = "download"
  /\ \/ /\ Throw(r, "Failed to download quiz PDF")
        /\ UNCHANGED <<elsewhere, CURRENT_OCR_CTX, extracted_text, files>>
     \/ \E n \in 1..MaxPages :
          LET first == CascadeSeq(engine[r])[1] IN
          /\ pages' = [pages EXCEPT ![r] = n]
          /\ CURRENT_OCR_CTX' = QuizCtx(QuizRow[quizId[r]])
          /\ extractedText' = [extractedText EXCEPT ![r] = <<>>]
          /\ calls' = [calls EXCEPT ![r] = <<[name |-> first, ok |-> None]>>]
          /\ ad' = [ad EXCEPT ![r] = AdStart(first)]
          /\ pc' = [pc EXCEPT ![r] = "cascade"]
          /\ UNCHANGED <<elsewhere, OCR_LOCKED, extracted_text, files, quizId, engine, handed,
                         resp>>

\* .update({ extracted_text: extractedText }): the column's new value
\* (a variant that appends to the column instead of replacing it)
StoredAppended(r) == extracted_text[quizId[r]] \o extractedText[r]
Stored(r) == extractedText[r]

\* the update of quizzes.extracted_text answers
UpdateDone(r) ==
  /\ pc[r] = "update"
  /\ \/ /\ Throw(r, "update failed")
        /\ UNCHANGED <<elsewhere, CURRENT_OCR_CTX, extracted_text, files>>
     \/ /\ extracted_text' = [extracted_text EXCEPT ![quizId[r]] = Stored(r)]
        /\ Finish(r, [status |-> 200, success |-> TRUE, text |-> extractedText[r]])
        /\ UNCHANGED <<elsewhere, CURRENT_OCR_CTX, files>>


\* ------------------------------------------------------------------------
\* What the adapters share
\* ------------------------------------------------------------------------
MaybeRaw == {None} \cup {Some(t) : t \in RawTexts}

\* how one awaited call of a provider or library ends
Outcomes == {[threw |-> TRUE]} \cup {[threw |-> FALSE, text |-> m] : m \in MaybeRaw}

File(a, k, kind) == [ad |-> a, page |-> k, kind |-> kind]

\* the page images pdf-poppler's convert() writes for an n-page PDF
RawFiles(a, n) == {File(a, k, "raw") : k \in 0..(n - 1)}

\* the adapter stays suspended inside itself with new locals
Stay(r, locals) ==
  /\ ad' = [ad EXCEPT ![r] = locals]
  /\ UNCHANGED <<elsewhere, OCR_LOCKED, CURRENT_OCR_CTX, pc, resp, quizId, engine, pages,
                 extracted_text, extractedText, calls, handed>>

Inside(r, a, at) == pc[r] = "cascade" /\ ad[r].name = a /\ ad[r].at = at

\* elements [key, val]: a stable sort by key, descending (Array.prototype.sort
\* with (a, b) => key(b) - key(a))
RECURSIVE InsertDesc(_, _)
InsertDesc(sorted, e) ==
  IF sorted = <<>> THEN <<e>>
  ELSE IF sorted[1].key >= e.key THEN <<sorted[1]>> \o InsertDesc(Tail(sorted), e)
  ELSE <<e>> \o sorted

RECURSIVE SortDesc(_)
SortDesc(s) ==
  IF s = <<>> THEN <<>> ELSE InsertDesc(SortDesc(SubSeq(s, 1, Len(s) - 1)), s[Len(s)])

\* ------------------------------------------------------------------------
\* tryPdfParse and tryVisionPdf / ocrWithVisionPdfNative
\* ------------------------------------------------------------------------
PdfParseDone(r) ==
  /\ Inside(r, "pdfParse", "parse")
  /\ \/ AdapterThrew(r)
     \/ \E text \in MaybeRaw : Return(r, stripGarbage(OrEmpty(text)))
  /\ UNCHANGED files

RECURSIVE JoinPages(_)
\* out += text + "\n\n" for every response with text
JoinPages(texts) ==
  IF texts = <<>> THEN <<>>
  ELSE LET text == stripGarbage(OrEmpty(texts[1])) IN
       (IF text # <<>> THEN text \o NL2 ELSE <<>>) \o JoinPages(Tail(texts))

VisionPdfDone(r) ==
  /\ Inside(r, "visionPdf", "batch")
  /\ \/ AdapterThrew(r)
     \/ \E texts \in [1..pages[r] -> MaybeRaw] : Return(r, Trim(JoinPages(texts)))
  /\ UNCHANGED files

\* ------------------------------------------------------------------------
\* ocrWithTesseract
\* ------------------------------------------------------------------------
TessConvertDone(r) ==
  /\ Inside(r, "tesseract", "convert")
  /\ \/ AdapterThrew(r) /\ UNCHANGED files
     \/ /\ files' = files \cup RawFiles("tesseract", pages[r])
        /\ Stay(r, [name |-> "tesseract", at |-> "page", idx |-> 0, merged |-> <<>>])

\* the outcomes of the two OCR passes over one image
PassPairs ==
  { p \in Outcomes \X Outcomes :
      p \in { <<[threw |-> TRUE], [threw |-> TRUE]>>,
              <<[threw |-> FALSE, text |-> Some(TxtMid)], [threw |-> FALSE, text |-> Some(TxtLong)]>>,
              <<[threw |-> FALSE, text |-> Some(TxtLong)], [threw |-> TRUE]>>,
              <<[threw |-> FALSE, text |-> Some(TxtDirty)], [threw |-> FALSE, text |-> None]>>,
              <<[threw |-> FALSE, text |-> None], [threw |-> FALSE, text |-> Some(TxtLong)]>> } }

\* one recognize pass: a longer text replaces best, a failed pass is skipped
LongerOf(best, o) ==
  IF o.threw THEN best
  ELSE LET txt == stripGarbage(OrEmpty(o.text)) IN
       IF Len(txt) > Len(best) THEN txt ELSE best

\* both passes over one page image, the gate, and the unlink of the image
TessPageDone(r) ==
  /\ Inside(r, "tesseract", "page")
  /\ \E p \in PassPairs :
       LET best   == LongerOf(LongerOf(<<>>, p[1]), p[2])
           merged == IF best # <<>> /\ isMeaningful(best)
                     THEN ad[r].merged \o best \o NL2 ELSE ad[r].merged
       IN /\ files' = files \ {File("tesseract", ad[r].idx, "raw")}
          /\ IF ad[r].idx + 1 < pages[r]
             THEN Stay(r, [ad[r] EXCEPT !.idx = @ + 1, !.merged = merged])
             ELSE Return(r, Trim(merged))

\* ------------------------------------------------------------------------
\* ocrWithVisionImagesMultiVariant
\* ------------------------------------------------------------------------
\* the derived images of a page, in addVariant order
Variants == <<"v1_light", "v2_t150", "v3_t175", "v4_invert",
              "rot_-4", "rot_-2", "rot_0", "rot_2", "rot_4">>

\* which variant builds Promise.allSettled saw succeed
BuiltChoices == {1..Len(Variants), 2..Len(Variants), {}}

\* the answers of the variants of a page: the first variant answers pair p[1],
\* the others pair p[2]
VariantAnswers == PassPairs \X PassPairs

ImgConvertDone(r) ==
  /\ Inside(r, "images", "convert")
  /\ \/ AdapterThrew(r) /\ UNCHANGED files
     \/ /\ files' = files \cup RawFiles("images", pages[r])
        /\ Stay(r, [name |-> "images", at |-> "build", idx |-> 0, mergedDoc |-> <<>>])

VariantFiles(k, built) == {File("images", k, Variants[i]) : i \in built}

\* Promise.allSettled(variantBuilds) of the current page
ImgBuildDone(r) ==
  /\ Inside(r, "images", "build")
  /\ \E built \in BuiltChoices :
       /\ files' = files \cup VariantFiles(ad[r].idx, built)
       /\ Stay(r, [ad[r] EXCEPT !.at = "ocr"])

RECURSIVE SplitLines(_)
\* .split(/\r?\n/)
SplitLines(txt) ==
  IF \E i \in 1..Len(txt) : txt[i] = "\n"
  THEN LET i    == CHOOSE j \in 1..Len(txt) :
                     txt[j] = "\n" /\ \A h \in 1..(j - 1) : txt[h] # "\n"
           head == SubSeq(txt, 1, i - 1)
           line == IF head # <<>> /\ head[Len(head)] = "\r"
                   THEN SubSeq(head, 1, Len(head) - 1) ELSE head
       IN <<line>> \o SplitLines(SubSeq(txt, i + 1, Len(txt)))
  ELSE <<txt>>

RECURSIVE AddLineSeq(_, _)
\* addLines: a line whose trimmed form was not seen yet is kept
AddLineSeq(m, lines) ==
  IF lines = <<>> THEN m
  ELSE LET k == Trim(lines[1]) IN
       AddLineSeq(IF k # <<>> /\ k \notin m.seen
                  THEN [seen |-> m.seen \cup {k}, lines |-> Append(m.lines, lines[1])]
                  ELSE m,
                  Tail(lines))

addLines(m, txt) == AddLineSeq(m, SplitLines(txt))

RECURSIVE AddMeaningful(_, _)
\* for (i = 1; ...) if (isMeaningful(variantResults[i].text)) addLines(...)
AddMeaningful(m, results) ==
  IF results = <<>> THEN m
  ELSE AddMeaningful(IF isMeaningful(results[1].val) THEN addLines(m, results[1].val) ELSE m,
                     Tail(results))

RECURSIVE JoinLines(_)
\* mergedLines.join("\n")
JoinLines(lines) ==
  IF lines = <<>> THEN <<>>
  ELSE IF Len(lines) = 1 THEN lines[1]
  ELSE lines[1] \o <<"\n">> \o JoinLines(Tail(lines))

\* the score of a variant's best text
VariantScore(best) == Min(Len(best), 10000) + (IF isMeaningful(best) THEN 1000 ELSE 0)

RECURSIVE VariantResults(_)
\* bests: the best text of each existing variant, in variant order
VariantResults(bests) ==
  IF bests = <<>> THEN <<>>
  ELSE (IF bests[1] # <<>>
        THEN <<[key |-> VariantScore(bests[1]), val |-> bests[1]]>> ELSE <<>>)
       \o VariantResults(Tail(bests))

\* the page text merged from the variants' best texts
\* (a variant that leaves the results in the order of the variants)
MergeVariantsUnsorted(bests) ==
  LET variantResults == VariantResults(bests)
      best == IF variantResults = <<>> THEN <<>> ELSE variantResults[1].val
      m0   == addLines([seen |-> {}, lines |-> <<>>], best)
      m    == IF variantResults = <<>> THEN m0 ELSE AddMeaningful(m0, Tail(variantResults))
  IN stripGarbage(JoinLines(m.lines))
MergeVariants(bests) ==
  LET variantResults == SortDesc(VariantResults(bests))
      best == IF variantResults = <<>> THEN <<>> ELSE variantResults[1].val
      m0   == addLines([seen |-> {}, lines |-> <<>>], best)
      m    == IF variantResults = <<>> THEN m0 ELSE AddMeaningful(m0, Tail(variantResults))
  IN stripGarbage(JoinLines(m.lines))

\* the OCR passes over the existing variants of the page, the merge, the gate
\* and the unlink of the variants and of the page image
ImgOcrDone(r) ==
  /\ Inside(r, "images", "ocr")
  /\ \E answers \in VariantAnswers :
       LET idx      == ad[r].idx
           existing == SelectSeq([i \in 1..Len(Variants) |-> i],
                                 LAMBDA i : File("images", idx, Variants[i]) \in files)
           first    == LongerOf(LongerOf(<<>>, answers[1][1]), answers[1][2])
           other    == LongerOf(LongerOf(<<>>, answers[2][1]), answers[2][2])
           bests    == [j \in 1..Len(existing) |-> IF existing[j] = 1 THEN first ELSE other]
           pageText == MergeVariants(bests)
           doc      == IF pageText # <<>> /\ isMeaningful(pageText)
                       THEN ad[r].mergedDoc \o pageText \o NL2 ELSE ad[r].mergedDoc
       IN /\ files' = (files \ VariantFiles(idx, 1..Len(Variants)))
                        \ {File("images", idx, "raw")}
          /\ IF idx + 1 < pages[r]
             THEN Stay(r, [ad[r] EXCEPT !.idx = @ + 1, !.mergedDoc = doc, !.at = "build"])
             ELSE Return(r, Trim(doc))


\* ------------------------------------------------------------------------
\* ocrWithOpenAIOCR and ocrWithGeminiOCR
\* ------------------------------------------------------------------------
\* modelCandidates, with and without OPENAI_OCR_MODEL in the environment
ModelLists == {<<"env-model", "gpt-4o-mini", "gpt-4o">>, <<"gpt-4o-mini", "gpt-4o">>}

\* how a request to the OpenAI responses endpoint ends
FetchOutcomes ==
  {[kind |-> "http", code |-> "model_not_found"], [kind |-> "http", code |-> "other"]}
  \cup {[kind |-> "ok", text |-> m] : m \in MaybeRaw}
  \cup (IF MidPageThrows THEN {[kind |-> "threw"]} ELSE {})

\* how a request to the Gemini relay or to the Google endpoint ends
CallOutcomes ==
  {[kind |-> "threw"], [kind |-> "http"]} \cup {[kind |-> "ok", text |-> m] : m \in MaybeRaw}

\* the top of the page loop: the naming context is read, the instruction of the
\* page is built and the preprocessing of the page image is awaited
PageTop(locals, idx, allText) ==
  [locals EXCEPT !.at = "pre", !.idx = idx, !.allText = allText, !.pageText = <<>>,
                 !.lastErrText = None, !.mi = 0,
                 !.ctxRead = Some(CURRENT_OCR_CTX),
                 !.hdr = Some(HeaderRules(CURRENT_OCR_CTX, idx))]

\* the locals of a vision-language-model adapter; env is what it read of
\* process.env, warned is the last "No meaningful text" warning it wrote
VlmLocals(a, env) ==
  [name |-> a, env |-> env, at |-> "convert", idx |-> 0, allText |-> <<>>,
   pageText |-> <<>>, lastErrText |-> None, warned |-> None, mi |-> 0,
   ctxRead |-> None, hdr |-> None]

\* the page loop's end of a page: the gate, the unlink of the preprocessed and of
\* the page image, then the next page or the return of the adapter
PageEnd(r, locals) ==
  LET idx      == locals.idx
      pageText == locals.pageText
      allText  == IF pageText # <<>> /\ Len(pageText) > PageMin
                  THEN locals.allText \o pageText \o NL2 ELSE locals.allText
  IN /\ files' = files \ {File(locals.name, idx, "pre"), File(locals.name, idx, "raw")}
     /\ IF idx + 1 < pages[r]
        THEN Stay(r, PageTop(locals, idx + 1, allText))
        ELSE Return(r, Trim(allText))

EndPage(r, pageText) == PageEnd(r, [ad[r] EXCEPT !.pageText = pageText])

\* the sharp pipeline and toDataURIWithCap of the page: it throws before or after
\* the preprocessed image is written, or the first request goes out
PreDone(r, a, next) ==
  /\ Inside(r, a, "pre")
  /\ \/ MidPageThrows /\ AdapterThrew(r) /\ UNCHANGED files
     \/ /\ MidPageThrows
        /\ files' = files \cup {File(a, ad[r].idx, "pre")}
        /\ AdapterThrew(r)
     \/ /\ files' = files \cup {File(a, ad[r].idx, "pre")}
        /\ Stay(r, [ad[r] EXCEPT !.at = next, !.mi = 1])

OaConvertDone(r) ==
  /\ Inside(r, "openai", "convert")
  /\ \/ AdapterThrew(r) /\ UNCHANGED files
     \/ \E models \in ModelLists :
          /\ files' = files \cup RawFiles("openai", pages[r])
          /\ Stay(r, PageTop(VlmLocals("openai", [models |-> models]), 0, <<>>))

OaPreDone(r) == PreDone(r, "openai", "fetch")

\* the model loop is left before the next candidate: an HTTP error other than
\* model_not_found, or a sanitized answer longer than PageMin
\* (a variant that moves on to the next candidate after any HTTP error)
ModelLoopBreaksNever(o, pageText) ==
  o.kind = "ok" /\ pageText # <<>> /\ Len(pageText) > PageMin
\* (a variant that is content with PageMin characters)
ModelLoopBreaksAtMin(o, pageText) ==
  \/ o.kind = "http" /\ o.code # "model_not_found"
  \/ o.kind = "ok" /\ pageText # <<>> /\ Len(pageText) >= PageMin
ModelLoopBreaks(o, pageText) ==
  \/ o.kind = "http" /\ o.code # "model_not_found"
  \/ o.kind = "ok" /\ pageText # <<>> /\ Len(pageText) > PageMin

\* the answer of one model candidate for the page
OaFetchDone(r) ==
  /\ Inside(r, "openai", "fetch")
  /\ \E o \in FetchOutcomes :
       IF o.kind = "threw"
       THEN AdapterThrew(r) /\ UNCHANGED files
       ELSE LET pageText == IF o.kind = "ok" THEN stripGarbage(OrEmpty(o.text))
                            ELSE ad[r].pageText
                lastErr  == IF o.kind = "http" /\ WarningsKept THEN Some(o.code)
                            ELSE ad[r].lastErrText
                kept     == pageText # <<>> /\ Len(pageText) > PageMin
                warned   == IF kept \/ ~WarningsKept THEN ad[r].warned
                            ELSE Some([idx |-> ad[r].idx, tried |-> ad[r].mi,
                                       lastErrText |-> lastErr])
                locals   == [ad[r] EXCEPT !.pageText = pageText, !.lastErrText = lastErr]
                ended    == [locals EXCEPT !.warned = warned]
            IN IF ~ModelLoopBreaks(o, pageText) /\ ad[r].mi < Len(ad[r].env.models)
               THEN /\ Stay(r, [locals EXCEPT !.mi = @ + 1])
                    /\ UNCHANGED files
               ELSE PageEnd(r, ended)

GmConvertDone(r) ==
  /\ Inside(r, "gemini", "convert")
  /\ \/ AdapterThrew(r) /\ UNCHANGED files
     \/ \E relayBase \in BOOLEAN, apiKey \in BOOLEAN :
          /\ files' = files \cup RawFiles("gemini", pages[r])
          /\ Stay(r, PageTop(VlmLocals("gemini", [relayBase |-> relayBase,
                                                   apiKey |-> apiKey]), 0, <<>>))

GmPreDone(r) == PreDone(r, "gemini", "call")

\* the text one Gemini call contributes
CallText(o) ==
  IF o.kind = "ok"
  THEN LET cleaned == stripGarbage(OrEmpty(o.text)) IN
       IF cleaned # <<>> /\ Len(cleaned) > PageMin THEN cleaned ELSE <<>>
  ELSE <<>>

\* the relay call (if configured), then the Google call if the relay gave no text
GmCallDone(r) ==
  /\ Inside(r, "gemini", "call")
  /\ \E relay \in CallOutcomes, google \in CallOutcomes :
       LET fromRelay == IF ad[r].env.relayBase THEN CallText(relay) ELSE <<>>
           pageText  == IF fromRelay # <<>> THEN fromRelay
                        ELSE IF ~ad[r].env.apiKey THEN <<>>
                        ELSE CallText(google)
       IN EndPage(r, pageText)

\* ------------------------------------------------------------------------
\* The specification of the /process-quiz endpoint
\* ------------------------------------------------------------------------
\* a step of the handler of a request that holds the lock
Handle(r) ==
  \/ Validate(r)
  \/ SelectDone(r)
  \/ DownloadDone(r)
  \/ PdfParseDone(r)
  \/ VisionPdfDone(r)
  \/ OaConvertDone(r)
  \/ OaPreDone(r)
  \/ OaFetchDone(r)
  \/ GmConvertDone(r)
  \/ GmPreDone(r)
  \/ GmCallDone(r)
  \/ ImgConvertDone(r)
  \/ ImgBuildDone(r)
  \/ ImgOcrDone(r)
  \/ TessConvertDone(r)
  \/ TessPageDone(r)
  \/ UpdateDone(r)

OcrNext == \E r \in Reqs : Arrive(r) \/ Wake(r) \/ Handle(r)

\* the request of the slot has been answered, and another POST /process-quiz/:id
\* arrives in the slot: its handler calls acquireOcrLock()
Again(r) ==
  /\ world = "live"
  /\ pc[r] = "done"
  /\ acquireOcrLock(r)
  /\ resp' = [resp EXCEPT ![r] = NoResp]
  /\ UNCHANGED <<elsewhere, CURRENT_OCR_CTX, extracted_text, files, quizId, engine, pages,
                 extractedText, ad, calls, handed>>

\* requests keep arriving
OcrNextLive == \E r \in Reqs : Arrive(r) \/ Again(r) \/ Wake(r) \/ Handle(r)

\* the timer of a poll loop fires: a request that polls a lock that stays free
\* takes it
OcrFair == \A r \in Reqs : WF_<<ocrVars, sbVars, mapVars, gnVars, gateVars, mvVars, packVars>>(Wake(r))

\* a lone request never finds the lock taken, so it never sleeps
OcrNextSingle == \E r \in Lone : Arrive(r) \/ Handle(r)

\* ------------------------------------------------------------------------
\* SBAW.ts: the composite (Solution/Best/Avg/Low) build, POST /build-sbab/:id
\* ------------------------------------------------------------------------
\* the longest graded_json array, the length up to which an array is made of
\* any sample records, and the most pages of the original PDF
MaxStudents == 5
RichLen == 3
MaxPageCount == 10

\* StudentGraded records (the fields the selection reads)
Student(name, score) == [student_name |-> name, total_score |-> score]
StAli      == Student(Some(<<"a","l","i">>), Some(40))
StBo       == Student(Some(<<"B","o">>), Some(90))
StNoName   == Student(None, Some(10))
StUnknown  == Student(Some(<<"U","n","k","n","o","w","n","_","q">>), None)
StSolution == Student(Some(<<"S","O","L","U","T","I","O","N","_","P","A","P","E","R","_","q">>),
                      Some(90))
Students     == {StAli, StBo, StNoName, StUnknown, StSolution}
FewStudents  == {StAli, StUnknown}

Arrays(S, lens) == UNION {[1..n -> S] : n \in lens}

\* quizzes.graded_json: null, an object that is no array, or an array
GradedJsons ==
  {[kind |-> "null"], [kind |-> "object"]}
    \cup {[kind |-> "array", items |-> a] :
            a \in Arrays(Students, 0..RichLen) \cup Arrays(FewStudents, (RichLen + 1)..MaxStudents)}

\* the rows .select("id, original_pdf, graded_json, no_of_pages,
\* read_first_paper_is_solution") answers with
SbabRows ==
  [original_pdf : {Some("quiz.pdf")},
   graded_json : GradedJsons,
   no_of_pages : {None, Some(0 - 1), Some(0), Some(1), Some(2)},
   read_first_paper_is_solution : {None, Some(TRUE), Some(FALSE)}]

NoSelection == [made |-> FALSE]

SbInit ==
  /\ sbPc = "idle"
  /\ quiz = None
  /\ pageCount = 0
  /\ selection = NoSelection
  /\ order = <<>>
  /\ uploaded = {}
  /\ sbResp = NoResp

\* /^prefix/.test(n)
StartsWith(n, prefix) == Len(n) >= Len(prefix) /\ SubSeq(n, 1, Len(prefix)) = prefix

\* (m.student?.student_name || "").toLowerCase()
LoweredName(m) == toLowerCase(OrEmpty(m.student.student_name))
RawName(m) == OrEmpty(m.student.student_name)

\* arr.find(...) of pickSolutionIndex: the positions of the entries that match
\* (a variant that does not lower-case the name)
SolutionCandidatesCaseSensitive(arr) ==
  {i \in 1..Len(arr) : StartsWith(RawName(arr[i]), UnknownPrefix)
                         \/ StartsWith(RawName(arr[i]), SolutionPrefix)}
SolutionCandidates(arr) ==
  {i \in 1..Len(arr) : StartsWith(LoweredName(arr[i]), UnknownPrefix)
                         \/ StartsWith(LoweredName(arr[i]), SolutionPrefix)}

Least(S) == CHOOSE i \in S : \A j \in S : i <= j

pickSolutionIndex(arr) ==
  LET cand == SolutionCandidates(arr)
  IN IF cand # {} THEN arr[Least(cand)].pageIndex
     ELSE IF arr # <<>> THEN arr[1].pageIndex
     ELSE 0

\* Array.isArray(quiz.graded_json) ? quiz.graded_json : []
GradedOf(row) == IF row.graded_json.kind = "array" THEN row.graded_json.items ELSE <<>>

\* Math.max(1, Number(quiz.no_of_pages || 1))
pagesPerStudent(row) == PagesPerStudentOf(row)

\* the first page of each student's block: 0, p, 2p, ...
\* (a variant that maps every graded record, whatever the page count)
MappedAllStudents(row, pages_) ==
  LET graded == GradedOf(row)
      p      == pagesPerStudent(row)
  IN [i \in 1..Len(graded) |-> [index |-> i - 1, pageIndex |-> (i - 1) * p, student |-> graded[i]]]
Mapped(row, pages_) ==
  LET graded      == GradedOf(row)
      p           == pagesPerStudent(row)
      useStudents == Min(Len(graded), pages_ \div p)
  IN [i \in 1..useStudents |-> [index |-> i - 1, pageIndex |-> (i - 1) * p, student |-> graded[i]]]

\* student.total_score ?? 0
ScoreOf(m) == IF m.student.total_score = None THEN 0 ELSE Get(m.student.total_score)

\* [...pool].sort((a, b) => (b.student.total_score ?? 0) - (a.student.total_score ?? 0))
RankByScore(pool) ==
  LET keyed  == [i \in 1..Len(pool) |-> [key |-> ScoreOf(pool[i]), val |-> pool[i]]]
      sorted == SortDesc(keyed)
  IN [i \in 1..Len(sorted) |-> sorted[i].val]

\* Math.floor(sorted.length / 2), as a position of the 1-based sequence
\* (a variant taking the lower middle)
MidLower(n) == ((n - 1) \div 2) + 1
Mid(n) == (n \div 2) + 1

\* sorted[k]?.pageIndex ?? (pool[0]?.pageIndex ?? (mapped[0]?.pageIndex ?? 0))
\* (a variant without the ?? fallbacks: a missing element gives no page)
PageAtNoFallback(sorted, k, pool, mapped) ==
  IF k \in 1..Len(sorted) THEN sorted[k].pageIndex ELSE 0 - 1
PageAt(sorted, k, pool, mapped) ==
  IF k \in 1..Len(sorted) THEN sorted[k].pageIndex
  ELSE IF pool # <<>> THEN pool[1].pageIndex
  ELSE IF mapped # <<>> THEN mapped[1].pageIndex
  ELSE 0

\* selectFromFormattedAndBuild, from the page count on
\* (a variant that leaves the solution entry in the ranking pool)
SelectKeepingSolution(row, pages_) ==
  LET mapped      == Mapped(row, pages_)
      readFirst   == row.read_first_paper_is_solution # Some(FALSE)
      solutionIdx == IF readFirst THEN Some(pickSolutionIndex(mapped)) ELSE None
      sorted      == RankByScore(mapped)
  IN [made        |-> TRUE,
      mapped      |-> mapped,
      solutionIdx |-> solutionIdx,
      bestIdx     |-> PageAt(sorted, 1, mapped, mapped),
      avgIdx      |-> PageAt(sorted, Mid(Len(sorted)), mapped, mapped),
      lowIdx      |-> PageAt(sorted, Len(sorted), mapped, mapped)]
\* (a variant that does not read the flag of the quiz)
SelectIgnoringFlag(row, pages_) ==
  LET mapped      == Mapped(row, pages_)
      solutionIdx == Some(pickSolutionIndex(mapped))
      pool        == SelectSeq(mapped, LAMBDA m : m.pageIndex # Get(solutionIdx))
      sorted      == RankByScore(pool)
  IN [made        |-> TRUE,
      mapped      |-> mapped,
      solutionIdx |-> solutionIdx,
      bestIdx     |-> PageAt(sorted, 1, pool, mapped),
      avgIdx      |-> PageAt(sorted, Mid(Len(sorted)), pool, mapped),
      lowIdx      |-> PageAt(sorted, Len(sorted), pool, mapped)]
Select(row, pages_) ==
  LET mapped      == Mapped(row, pages_)
      readFirst   == row.read_first_paper_is_solution # Some(FALSE)
      solutionIdx == IF readFirst THEN Some(pickSolutionIndex(mapped)) ELSE None
      pool        == IF readFirst
                     THEN SelectSeq(mapped, LAMBDA m : m.pageIndex # Get(solutionIdx))
                     ELSE mapped
      sorted      == RankByScore(pool)
  IN [made        |-> TRUE,
      mapped      |-> mapped,
      solutionIdx |-> solutionIdx,
      bestIdx     |-> PageAt(sorted, 1, pool, mapped),
      avgIdx      |-> PageAt(sorted, Mid(Len(sorted)), pool, mapped),
      lowIdx      |-> PageAt(sorted, Len(sorted), pool, mapped)]

\* (mapped.find(m => m.pageIndex === page) || mapped[0]).student
StudentAt(mapped, page) ==
  LET hit == {i \in 1..Len(mapped) : mapped[i].pageIndex = page}
  IN IF hit # {} THEN mapped[Least(hit)].student ELSE mapped[1].student

Item(label, page, mapped) == [label |-> label, page |-> page, student |-> StudentAt(mapped, page)]

\* the order array of buildSBABSingle
Order(sel) ==
  (IF sel.solutionIdx # None
   THEN <<Item("Solution", Get(sel.solutionIdx), sel.mapped)>>
   ELSE <<>>)
    \o <<Item("Best", sel.bestIdx, sel.mapped),
         Item("Avg", sel.avgIdx, sel.mapped),
         Item("Low", sel.lowIdx, sel.mapped)>>

\* the catch of the route answers 500
SbFail(message) ==
  /\ sbResp' = [status |-> 500, success |-> FALSE, error |-> message]
  /\ sbPc' = "done"

\* POST /build-sbab/:id arrives; the select of the quiz row is issued
SbArrive ==
  /\ world = "composite"
  /\ sbPc = "idle"
  /\ sbPc' = "select"
  /\ UNCHANGED <<outsideSbab, quiz, pageCount, selection, order, uploaded, sbResp>>

\* the quiz row arrives, or not; the download is issued
SbSelectDone ==
  /\ sbPc = "select"
  /\ \/ /\ SbFail("Quiz or original PDF not found")
        /\ UNCHANGED <<outsideSbab, quiz, pageCount, selection, order, uploaded>>
     \/ \E row \in SbabRows :
          /\ quiz' = Some(row)
          /\ sbPc' = "download"
          /\ UNCHANGED <<outsideSbab, pageCount, selection, order, uploaded, sbResp>>

\* the original PDF arrives, or not; the pages are selected
SbDownloadDone ==
  /\ sbPc = "download"
  /\ \/ /\ SbFail("Failed to download original quiz PDF")
        /\ UNCHANGED <<outsideSbab, quiz, pageCount, selection, order, uploaded>>
     \/ \E n \in 0..MaxPageCount :
          /\ pageCount' = n
          /\ selection' = Select(Get(quiz), n)
          /\ sbPc' = "build"
          /\ UNCHANGED <<outsideSbab, quiz, order, uploaded, sbResp>>

\* buildSBABSingle builds the order array and the output document; reading
\* mapped[0].student of an empty mapped throws
\* (a variant that builds an empty document for an empty mapped)
SbBuildLenient ==
  /\ sbPc = "build"
  /\ order' = IF selection.mapped = <<>> THEN <<>> ELSE Order(selection)
  /\ sbPc' = "upload"
  /\ UNCHANGED <<outsideSbab, quiz, pageCount, selection, uploaded, sbResp>>
SbBuild ==
  /\ sbPc = "build"
  /\ IF selection.mapped = <<>>
     THEN /\ SbFail("Cannot read properties of undefined")
          /\ UNCHANGED <<outsideSbab, quiz, pageCount, selection, order, uploaded>>
     ELSE /\ order' = Order(selection)
          /\ sbPc' = "upload"
          /\ UNCHANGED <<outsideSbab, quiz, pageCount, selection, uploaded, sbResp>>

\* the upload to the graded bucket answers
SbUploadDone ==
  /\ sbPc = "upload"
  /\ \/ /\ SbFail("upload failed")
        /\ UNCHANGED <<outsideSbab, quiz, pageCount, selection, order, uploaded>>
     \/ /\ uploaded' = uploaded \cup {order}
        /\ sbResp' = [status |-> 200, success |-> TRUE]
        /\ sbPc' = "done"
        /\ UNCHANGED <<outsideSbab, quiz, pageCount, selection, order>>

SbNext ==
  \/ SbArrive
  \/ SbSelectDone
  \/ SbDownloadDone
  \/ SbBuild
  \/ SbUploadDone

\* ------------------------------------------------------------------------
\* green_page_map.ts: mapPagesToStudents, the page mapping helper
\* ------------------------------------------------------------------------
\* the largest pageCount, the longest students list and the longest page_texts
\* list a call is made with
MaxMapPages == 7
MaxRoster == 3
MaxTexts == 2

\* the elements an `unknown[]` holds: the integer v, the number v + 0.5, NaN,
\* and the string that spells v
Num(v)  == [type |-> "number", num |-> "int",  whole |-> v]
Frac(v) == [type |-> "number", num |-> "frac", whole |-> v]
NaN     == [type |-> "number", num |-> "nan",  whole |-> 0]
Str(v)  == [type |-> "string", num |-> "int",  whole |-> v]

\* a number[] seen as an unknown[]
Nums(list) == [i \in 1..Len(list) |-> Num(list[i])]

\* typeof v === "number" ? v : Number.isFinite(v) ? Number(v) : NaN
\* (Number.isFinite converts nothing: it is false of every non-number)
AsNumber(v) == IF v.type = "number" THEN v ELSE NaN

\* Number.isInteger(n) && n >= 0 && n < pageCount
InRange(n, count) == n.num = "int" /\ n.whole >= 0 /\ n.whole < count
InRangeNoUpper(n, count) == n.num = "int" /\ n.whole >= 0

\* Array.from(new Set(nums)): the first occurrence of each value, in order
Unique(nums) ==
  LET kept == SelectSeq([i \in 1..Len(nums) |-> i],
                        LAMBDA i : \A h \in 1..(i - 1) : nums[h] # nums[i])
  IN [j \in 1..Len(kept) |-> nums[kept[j]]]

\* twice the number n, which is an integer for an integer and for a half
Twice(n) == 2 * n.whole + (IF n.num = "frac" THEN 1 ELSE 0)

\* .sort((a, b) => a - b)
RECURSIVE InsertAsc(_, _)
InsertAsc(sorted, x) ==
  IF sorted = <<>> THEN <<x>>
  ELSE IF Twice(x) < Twice(Head(sorted)) THEN <<x>> \o sorted
  ELSE <<Head(sorted)>> \o InsertAsc(Tail(sorted), x)

RECURSIVE SortAsc(_)
SortAsc(list) ==
  IF list = <<>> THEN <<>> ELSE InsertAsc(SortAsc(SubSeq(list, 1, Len(list) - 1)), list[Len(list)])

\* normalizeIndices
\* (a variant that does not check the upper end of the range)
normalizeIndicesNoUpper(indices, count) ==
  LET nums == SelectSeq([i \in 1..Len(indices) |-> AsNumber(indices[i])],
                        LAMBDA n : InRangeNoUpper(n, count))
  IN SortAsc(Unique(nums))
normalizeIndices(indices, count) ==
  LET nums == SelectSeq([i \in 1..Len(indices) |-> AsNumber(indices[i])],
                        LAMBDA n : InRange(n, count))
  IN SortAsc(Unique(nums))

\* Array.from({ length: take }, (_, k) => from + k)
Run(from, take) == [k \in 1..Max(0, take) |-> from + k - 1]

\* the loop of evenSplit, from student i on
\* (a variant that never takes the remainder down)
RECURSIVE SplitLoopKeepRemainder(_, _, _, _, _, _)
SplitLoopKeepRemainder(n, base, i, cursor, remainder, result) ==
  IF i >= n THEN result
  ELSE LET take == base + (IF remainder > 0 THEN 1 ELSE 0)
       IN SplitLoopKeepRemainder(n, base, i + 1, cursor + take, remainder,
                                 Append(result, Run(cursor, take)))
RECURSIVE SplitLoop(_, _, _, _, _, _)
SplitLoop(n, base, i, cursor, remainder, result) ==
  IF i >= n THEN result
  ELSE LET take == base + (IF remainder > 0 THEN 1 ELSE 0)
       IN SplitLoop(n, base, i + 1, cursor + take,
                    IF remainder > 0 THEN remainder - 1 ELSE remainder,
                    Append(result, Run(cursor, take)))

\* evenSplit
evenSplitKeepRemainder(count, n) ==
  IF n <= 0 \/ count <= 0 THEN [i \in 1..Max(0, n) |-> <<>>]
  ELSE LET base == count \div n
       IN SplitLoopKeepRemainder(n, base, 0, 0, count - base * n, <<>>)
\* (a variant whose slices all start at page 0)
evenSplitFromZero(count, n) ==
  IF n <= 0 \/ count <= 0 THEN [i \in 1..Max(0, n) |-> <<>>]
  ELSE LET base == count \div n
       IN [i \in 1..n |-> Run(0, base + (IF i <= count - base * n THEN 1 ELSE 0))]
evenSplit(count, n) ==
  IF n <= 0 \/ count <= 0 THEN [i \in 1..Max(0, n) |-> <<>>]
  ELSE LET base == count \div n
       IN SplitLoop(n, base, 0, 0, count - base * n, <<>>)

\* String.prototype.includes
Includes(t, part) ==
  \E k \in 0..(Len(t) - Len(part)) : SubSeq(t, k + 1, k + Len(part)) = part

NameMark == <<"n","a","m","e",":">>
RollMark == <<"r","o","l","l",":">>

\* the pages that look like the first page of a student's block (0-based)
BlockStarts(page_texts) ==
  LET texts == Get(page_texts)
      hits  == SelectSeq([i \in 1..Len(texts) |-> i],
                 LAMBDA i : LET t == toLowerCase(OrEmpty(texts[i]))
                            IN Includes(t, NameMark) /\ Includes(t, RollMark))
  IN [j \in 1..Len(hits) |-> hits[j] - 1]

\* inferByPageTexts: the ranges [start_i, start_{i+1}), the last one to the end
\* (a variant that ends the last range with its own start page)
inferByPageTextsShortLast(page_texts, expectedStudents) ==
  IF page_texts = None \/ Get(page_texts) = <<>> \/ expectedStudents = 0 THEN <<>>
  ELSE LET starts == BlockStarts(page_texts)
       IN [i \in 1..Len(starts) |->
             LET s == starts[i]
                 e == IF i + 1 <= Len(starts) THEN starts[i + 1] ELSE s + 1
             IN Run(s, e - s)]
inferByPageTexts(page_texts, expectedStudents) ==
  IF page_texts = None \/ Get(page_texts) = <<>> \/ expectedStudents = 0 THEN <<>>
  ELSE LET starts == BlockStarts(page_texts)
       IN [i \in 1..Len(starts) |->
             LET s == starts[i]
                 e == IF i + 1 <= Len(starts) THEN starts[i + 1] ELSE Len(Get(page_texts))
             IN Run(s, e - s)]

\* pageCount | 0: ToInt32 leaves an integer of 32 bits as it is, and the model
\* has no other numbers for pageCount
ToInt32(x) == x

\* { ...s, page_indices }
WithPages(s, indices) == [student_name |-> s.student_name, page_indices |-> indices]

\* Array.isArray(s.page_indices) && s.page_indices.length > 0
Provided(s) == s.page_indices # None /\ Get(s.page_indices) # <<>>

NoLocals == [inferredBlocks |-> None, split |-> None]

\* the loop that hands the pages no block covers to the students past the
\* blocks, from the j-th of them on; c holds the locals the loop reads
RECURSIVE SpillLoop(_, _, _, _)
SpillLoop(c, j, cursor, out) ==
  IF j >= c.remaining THEN out
  ELSE LET take    == IF j + 1 <= Len(c.split) THEN c.split[j + 1] ELSE <<>>
           at      == SelectSeq([k \in 1..Len(take) |-> cursor + k],
                                LAMBDA q : q <= Len(c.remainingPages))
           indices == [k \in 1..Len(at) |-> c.remainingPages[at[k]]]
       IN SpillLoop(c, j + 1, cursor + Len(take),
                    Append(out, WithPages(c.list[c.min + j + 1],
                                          normalizeIndices(Nums(indices), c.totalPages))))

\* mapPagesToStudents: what it returns (ret) and the locals it had
MapRun(count, students, page_texts) ==
  LET totalPages == Max(0, ToInt32(count))
      list       == IF students = None THEN <<>> ELSE Get(students)
      n          == Max(0, Len(list))
  IN IF n = 0 THEN [ret |-> <<>>, locals |-> NoLocals]
     ELSE IF \A i \in 1..n : Provided(list[i])
     THEN [ret    |-> [i \in 1..n |->
                         WithPages(list[i], normalizeIndices(Get(list[i].page_indices), totalPages))],
           locals |-> NoLocals]
     ELSE
       LET inferredBlocks == inferByPageTexts(page_texts, n)
           blocks         == Len(inferredBlocks)
       IN IF blocks >= 1
          THEN IF blocks = n
               THEN [ret    |-> [i \in 1..n |->
                                   WithPages(list[i],
                                             normalizeIndices(Nums(inferredBlocks[i]), totalPages))],
                     locals |-> [inferredBlocks |-> Some(inferredBlocks), split |-> None]]
               ELSE
                 LET min   == Min(n, blocks)
                     first == [i \in 1..min |->
                                 WithPages(list[i],
                                           normalizeIndices(Nums(inferredBlocks[i]), totalPages))]
                 IN IF min < n
                    THEN LET remaining      == n - min
                             remainingPages ==
                               SelectSeq(Run(0, totalPages),
                                         LAMBDA q : ~\E b \in 1..blocks :
                                                      \E k \in 1..Len(inferredBlocks[b]) :
                                                        inferredBlocks[b][k] = q)
                             split          == evenSplit(Len(remainingPages), remaining)
                         IN [ret    |-> SpillLoop([list |-> list, min |-> min,
                                                   remaining |-> remaining, split |-> split,
                                                   remainingPages |-> remainingPages,
                                                   totalPages |-> totalPages], 0, 0, first),
                             locals |-> [inferredBlocks |-> Some(inferredBlocks),
                                         split |-> Some([pageCount |-> Len(remainingPages),
                                                         n |-> remaining, lists |-> split])]]
                    ELSE [ret    |-> first,
                          locals |-> [inferredBlocks |-> Some(inferredBlocks), split |-> None]]
          ELSE LET split == evenSplit(totalPages, n)
               IN [ret    |-> [i \in 1..n |->
                                 WithPages(list[i],
                                           normalizeIndices(
                                             Nums(IF i <= Len(split) THEN split[i] ELSE <<>>),
                                             totalPages))],
                   locals |-> [inferredBlocks |-> Some(inferredBlocks),
                               split |-> Some([pageCount |-> totalPages, n |-> n,
                                               lists |-> split])]]

mapPagesToStudents(count, students, page_texts) == MapRun(count, students, page_texts).ret

\* the page_indices a caller provides: none, an empty list, an unsorted list
\* with a duplicate, and a list with a page past the end, a negative one, a
\* fraction and a string
IndexSamples ==
  {None, Some(<<>>), Some(<<Num(1), Num(0), Num(1)>>),
   Some(<<Num(MaxMapPages + 2), Num(0 - 1), Frac(0), Str(0), Num(2)>>)}

\* the students argument: no array, or an array of up to MaxRoster records
Rosters ==
  {None} \cup
  UNION {{Some([i \in 1..n |-> [student_name |-> Some(<<LowerSeq[i]>>), page_indices |-> f[i]]]) :
            f \in [1..n -> IndexSamples]} : n \in 0..MaxRoster}

\* the text of a page: with the header the OCR instructions ask for, with the
\* name alone, without a header, or missing
TxtHeader   == <<"N","a","m","e",":"," ","J","\n","R","o","l","l",":"," ","1">>
TxtNameOnly == <<"n","a","m","e",":","x">>
TxtPlain    == <<"Q","1">>
TextSamples == {None, Some(TxtHeader), Some(TxtNameOnly), Some(TxtPlain)}

\* the page_texts argument: left out, or an array of up to MaxTexts texts
PageTextsArgs == {None} \cup {Some(t) : t \in Arrays(TextSamples, 0..MaxTexts)}

MapInputs ==
  [pageCount : (0 - 1)..MaxMapPages, students : Rosters, page_texts : PageTextsArgs]

NoArgs == [pageCount |-> 0, students |-> None, page_texts |-> None]

\* no call of mapPagesToStudents is made
MapIdle ==
  /\ mapArgs = NoArgs
  /\ mapLocals = NoLocals
  /\ mapRet = None

MapInit ==
  /\ mapArgs \in MapInputs
  /\ mapLocals = NoLocals
  /\ mapRet = None

\* the call of mapPagesToStudents(pageCount, students, page_texts)
MapCall ==
  /\ world = "pagemap"
  /\ mapRet = None
  /\ LET run == MapRun(mapArgs.pageCount, mapArgs.students, mapArgs.page_texts)
     IN /\ mapRet' = Some(run.ret)
        /\ mapLocals' = run.locals
  /\ UNCHANGED <<mapArgs, outsideMap>>

MapNext == MapCall

\* ------------------------------------------------------------------------
\* green_page_map.ts: buildGreenMergedPdf, POST /build-green-graded/:id
\* ------------------------------------------------------------------------
\* the most pages of the original PDF and the longest graded_json array of a
\* full-roster build
MaxGreenPages == 4
MaxGraded == 3

\* quizzes.graded_json as the full-roster build meets it
GreenGradedJsons ==
  {[kind |-> "null"], [kind |-> "object"]}
    \cup {[kind |-> "array", items |-> a] : a \in Arrays(FewStudents, 0..MaxGraded)}

\* the rows .select("id, original_pdf, graded_json, no_of_pages") answers with
GreenRows ==
  [original_pdf : {None, Some("quiz.pdf")},
   graded_json : GreenGradedJsons,
   no_of_pages : {None, Some(0 - 1), Some(0), Some(1), Some(2)}]

GnInit ==
  /\ gnPc = "idle"
  /\ gnQuiz = None
  /\ gnPageCount = 0
  /\ gnOut = <<>>
  /\ gnStored = {}
  /\ gnResp = NoResp

\* Array.isArray(quiz.graded_json) ? quiz.graded_json : []
gradedArray(row) == Some(GradedOf(row))

\* gradedArray[studentIdx] || {}, and the record annotateStudentPage gets:
\* student_name: g.student_name || "", total_score: g.total_score ?? 0
AnnotatedStudent(graded, studentIdx) ==
  LET g == IF studentIdx + 1 <= Len(graded) THEN graded[studentIdx + 1]
           ELSE Student(None, None)
  IN [student_name |-> OrEmpty(g.student_name),
      total_score  |-> IF g.total_score = None THEN 0 ELSE Get(g.total_score)]

\* one pass of the page loop: the page copied and added, annotated when it is
\* the first page of a block
\* (a variant that annotates every page for the student of its block)
CopiedPageAllAnnotated(row, pageIdx) ==
  LET p == pagesPerStudent(row)
  IN [src  |-> pageIdx,
      note |-> Some([studentIdx |-> pageIdx \div p,
                     student    |-> AnnotatedStudent(Get(gradedArray(row)), pageIdx \div p)])]
CopiedPage(row, pageIdx) ==
  LET p == pagesPerStudent(row)
  IN [src  |-> pageIdx,
      note |-> IF pageIdx % p = 0
               THEN Some([studentIdx |-> pageIdx \div p,
                          student    |-> AnnotatedStudent(Get(gradedArray(row)), pageIdx \div p)])
               ELSE None]

\* the catch of the route: res.status(500).json({ success: false, ... })
GnFail(message) ==
  /\ gnPc' = "done"
  /\ gnResp' = [status |-> 500, success |-> FALSE, error |-> message]

\* POST /build-green-graded/:id arrives: buildGreenMergedPdf sends its select
GnArrive ==
  /\ world = "green"
  /\ gnPc = "idle"
  /\ gnPc' = "select"
  /\ UNCHANGED <<outsideGreen, gnQuiz, gnPageCount, gnOut, gnStored, gnResp>>

\* the select answers: an error, or a row
GnSelectDone ==
  /\ gnPc = "select"
  /\ \E answer \in {None} \cup {Some(row) : row \in GreenRows} :
       IF answer = None \/ Get(answer).original_pdf = None
       THEN /\ GnFail("Quiz or original PDF not found")
            /\ UNCHANGED <<outsideGreen, gnQuiz, gnPageCount, gnOut, gnStored>>
       ELSE /\ gnQuiz' = answer
            /\ gnPc' = "download"
            /\ UNCHANGED <<outsideGreen, gnPageCount, gnOut, gnStored, gnResp>>

\* the download answers: an error, or the file
GnDownloadDone ==
  /\ gnPc = "download"
  /\ \E ok \in BOOLEAN :
       IF ~ok
       THEN /\ GnFail("Failed to download original quiz PDF")
            /\ UNCHANGED <<outsideGreen, gnQuiz, gnPageCount, gnOut, gnStored>>
       ELSE /\ gnPc' = "load"
            /\ UNCHANGED <<outsideGreen, gnQuiz, gnPageCount, gnOut, gnStored, gnResp>>

\* PDFDocument.load and PDFDocument.create resolve, or load rejects
GnLoadDone ==
  /\ gnPc = "load"
  /\ \/ /\ GnFail("load")
        /\ UNCHANGED <<outsideGreen, gnQuiz, gnPageCount, gnOut, gnStored>>
     \/ \E count \in 0..MaxGreenPages :
          /\ gnPageCount' = count
          /\ gnPc' = IF count > 0 THEN "pages" ELSE "save"
          /\ UNCHANGED <<outsideGreen, gnQuiz, gnOut, gnStored, gnResp>>

\* one pass of the page loop, and out.save() after the last one
GnPageDone ==
  /\ gnPc = "pages"
  /\ LET pageIdx == Len(gnOut)
     IN /\ gnOut' = Append(gnOut, CopiedPage(Get(gnQuiz), pageIdx))
        /\ gnPc' = IF pageIdx + 1 < gnPageCount THEN "pages" ELSE "save"
  /\ UNCHANGED <<outsideGreen, gnQuiz, gnPageCount, gnStored, gnResp>>

\* out.save() resolves: the upload is sent
GnSaveDone ==
  /\ gnPc = "save"
  /\ gnPc' = "upload"
  /\ UNCHANGED <<outsideGreen, gnQuiz, gnPageCount, gnOut, gnStored, gnResp>>

\* the upload answers: an error, or the document is stored and its URL returned
GnUploadDone ==
  /\ gnPc = "upload"
  /\ \E ok \in BOOLEAN :
       IF ~ok
       THEN /\ GnFail("upload")
            /\ UNCHANGED <<outsideGreen, gnQuiz, gnPageCount, gnOut, gnStored>>
       ELSE /\ gnStored' = gnStored \cup {[pages |-> gnOut]}
            /\ gnPc' = "done"
            /\ gnResp' = [status |-> 200, success |-> TRUE]
            /\ UNCHANGED <<outsideGreen, gnQuiz, gnPageCount, gnOut>>

GnNext ==
  \/ GnArrive
  \/ GnSelectDone
  \/ GnDownloadDone
  \/ GnLoadDone
  \/ GnPageDone
  \/ GnSaveDone
  \/ GnUploadDone

\* ------------------------------------------------------------------------
\* isMeaningful, the gate of the cascade, called on its own
\* ------------------------------------------------------------------------
\* the most alphanumerics and the most other characters of an argument
MaxAlnum == 31
MaxJunk == 2

\* the characters the arguments are made of: alphanumerics of the three
\* kinds, and characters the gate does not count
GateAlnums == {"a", "Z", "7"}
GateJunk == {" ", "_", "\n"}

\* k times the alphanumeric c with j times the character x in front of it,
\* inside it and behind it
GateText(c, k, x, j) ==
  Rep(x, j) \o Rep(c, k \div 2) \o Rep(x, j) \o Rep(c, k - (k \div 2)) \o Rep(x, j)

\* the strings a caller passes, and the missing one
GateArgs ==
  {None} \cup {Some(GateText(c, k, x, j)) :
                 c \in GateAlnums, k \in 0..MaxAlnum, x \in GateJunk, j \in 0..MaxJunk}

GateIdle == gateArg = None /\ gateRet = None
GateInit == gateArg \in GateArgs /\ gateRet = None

\* the call of isMeaningful(s), with its (s || "")
GateCall ==
  /\ world = "gate"
  /\ gateRet = None
  /\ gateRet' = Some(isMeaningful(OrEmpty(gateArg)))
  /\ UNCHANGED <<gateArg, ocrVars, sbVars, mapVars, gnVars, mvVars, packVars>>

GateNext == GateCall

\* ------------------------------------------------------------------------
\* The merge of ocrWithVisionImagesMultiVariant, called once
\* ------------------------------------------------------------------------
\* the variants of a page that exist
MaxVariants == 3

LineA == Rep("a", 30)
LineB == Rep("b", 30)
LineC == Rep("c", 31)
\* the best texts of a variant: none, two meaningful texts of equal length with
\* the same lines in opposite orders, a longer meaningful one, a short one
MergeTexts ==
  {<<>>, LineA \o <<"\n">> \o LineB, LineB \o <<"\n">> \o LineA,
   LineA \o <<"\n">> \o LineC, <<"z", "z">>}

MergeInputs == UNION {[1..n -> MergeTexts] : n \in 0..MaxVariants}

MvIdle == mergeArg = <<>> /\ mergeRet = None
MvInit == mergeArg \in MergeInputs /\ mergeRet = None

\* variantResults.sort(...) and the lines merged from it
MergeCall ==
  /\ world = "merge"
  /\ mergeRet = None
  /\ mergeRet' = Some(MergeVariants(mergeArg))
  /\ UNCHANGED <<mergeArg, ocrVars, sbVars, mapVars, gnVars, gateVars, packVars>>

MvNext == MergeCall

\* ------------------------------------------------------------------------
\* POST /build-graded-pack/:id (src/src/grader.ts)
\* ------------------------------------------------------------------------
\* the grades rows of a quiz, and the records of quizzes.graded_json
MaxRows == 3
MaxQuizGraded == 2

\* graded records: the solution paper's, one of the same score, one without score
PackSol == [student_name |-> "solution_paper_1", total_score |-> Some(9)]
PackAli == [student_name |-> "ali", total_score |-> Some(9)]
PackBo  == [student_name |-> "bo", total_score |-> None]
PackRecords == {PackSol, PackAli, PackBo}

\* the sequences over S of at most n elements, and those without a repetition
SeqsUpTo(S, n) == UNION {[1..k -> S] : k \in 0..n}
Distinct(q) == \A i, j \in 1..Len(q) : q[i] = q[j] => i = j

\* quizzes.read_first_paper_is_solution (null, true, false), quizzes.graded_json
\* (null or an array of records) and grades.graded_json of each row (null or a
\* record)
PackQuizzes ==
  [flag   : {None, Some(TRUE), Some(FALSE)},
   graded : {None} \cup {Some(g) : g \in {q \in SeqsUpTo(PackRecords, MaxQuizGraded) : Distinct(q)}},
   rows   : SeqsUpTo({None} \cup {Some(x) : x \in PackRecords}, MaxRows)]

\* the objects a response of the database client is parsed into: each is a new
\* object, told here by the response and the position it came in
Parsed(response, q) == [i \in 1..Len(q) |-> [ref |-> <<response, i>>, val |-> q[i]]]

\* x !== y of two objects: they are not the same object
\* (a variant that compares what the objects hold)
NotSameValue(x, y) == x.val # y.val
NotSame(x, y) == x.ref # y.ref

\* (b.total_score || 0) - (a.total_score || 0)
ScoreKey(x) == IF x.val.total_score = None THEN 0 ELSE Get(x.val.total_score)

\* q[i] of a JavaScript array, counted from 0: undefined outside of it
At0(q, i) == IF i + 1 \in 1..Len(q) THEN Some(q[i + 1]) ELSE None
\* a || b of two optional objects
OrElse(a, b) == IF a # None THEN a ELSE b

\* list: the graded_json of the rows, without the null ones, by score
PackList(rows) ==
  LET objs   == Parsed("grades", rows)
      truthy == SelectSeq(objs, LAMBDA o : o.val # None)
      keyed  == [i \in 1..Len(truthy) |->
                   [key |-> ScoreKey([ref |-> truthy[i].ref, val |-> Get(truthy[i].val)]),
                    val |-> [ref |-> truthy[i].ref, val |-> Get(truthy[i].val)]]]
      sorted == SortDesc(keyed)
  IN [i \in 1..Len(sorted) |-> sorted[i].val]

\* the selection of solution, best, avg and low
PackSelect(quizRow) ==
  LET list == PackList(quizRow.rows)
      readFirstPaperIsSolution == quizRow.flag # Some(FALSE)
      fromQuiz == /\ readFirstPaperIsSolution
                  /\ quizRow.graded # None
                  /\ Len(Get(quizRow.graded)) > 0
      solution == IF fromQuiz THEN Some(Parsed("quizzes", Get(quizRow.graded))[1])
                  ELSE At0(list, 0)
      pool     == IF fromQuiz THEN SelectSeq(list, LAMBDA x : NotSame(x, Get(solution)))
                  ELSE list
  IN [solution |-> solution,
      best |-> OrElse(At0(pool, 0), At0(list, 0)),
      avg  |-> OrElse(At0(pool, Len(pool) \div 2), At0(list, Len(list) \div 2)),
      low  |-> OrElse(At0(pool, Len(pool) - 1), At0(list, Len(list) - 1))]

PackRoles == {"solution", "best", "avg", "low"}

PackIdle == packQuiz = None /\ packAt = "idle" /\ packPicked = None /\ packResp = None
PackInit ==
  /\ packQuiz \in {Some(q) : q \in PackQuizzes}
  /\ packAt = "lookup"
  /\ packPicked = None
  /\ packResp = None

PackRespond(status) ==
  /\ packAt' = "done"
  /\ packResp' = Some(status)

\* isUUID, requireQuizOwnership and the select of the quiz with its original_pdf
PackLookup ==
  /\ world = "pack"
  /\ packAt = "lookup"
  /\ \/ \E status \in {400, 403, 404} : PackRespond(status)
     \/ packAt' = "build" /\ packResp' = packResp
  /\ UNCHANGED <<packQuiz, packPicked, ocrVars, sbVars, mapVars, gnVars, gateVars, mvVars>>

\* the download of the PDF, the select of the grades rows, the selection, and
\* makeAndUpload of each role
PackBuild ==
  /\ world = "pack"
  /\ packAt = "build"
  /\ \E downloaded \in BOOLEAN, gErr \in BOOLEAN, stored \in BOOLEAN :
       LET rows   == Get(packQuiz).rows
           picked == PackSelect(Get(packQuiz))
       IN IF ~downloaded \/ gErr
          THEN PackRespond(500) /\ packPicked' = packPicked
          ELSE IF Len(rows) = 0
          THEN PackRespond(400) /\ packPicked' = packPicked
          ELSE /\ packPicked' = Some(picked)
               /\ IF stored /\ \A role \in PackRoles : picked[role] # None
                  THEN PackRespond(200)
                  ELSE PackRespond(500)
  /\ UNCHANGED <<packQuiz, ocrVars, sbVars, mapVars, gnVars, gateVars, mvVars>>

PackNext == PackLookup \/ PackBuild

vars == <<ocrVars, sbVars, mapVars, gnVars, gateVars, mvVars, packVars>>
\* the endpoint under concurrent requests
Init == world = "concurrent" /\ OcrInit /\ SbInit /\ MapIdle /\ GnInit /\ GateIdle /\ MvIdle
          /\ PackIdle
\* one request, with every sample answer
InitSingle == world = "single" /\ OcrInit /\ SbInit /\ MapIdle /\ GnInit /\ GateIdle /\ MvIdle
          /\ PackIdle
Next == OcrNext
Spec == Init /\ [][Next]_vars
NextSingle == OcrNextSingle
SpecSingle == InitSingle /\ [][NextSingle]_vars

\* the endpoint under requests that keep arriving, with the timers of the poll
\* loops scheduled fairly
InitLive == world = "live" /\ OcrInit /\ SbInit /\ MapIdle /\ GnInit /\ GateIdle /\ MvIdle
            /\ PackIdle
SpecLive == InitLive /\ [][OcrNextLive]_vars /\ OcrFair

\* one composite build
InitSBAB == world = "composite" /\ OcrInit /\ SbInit /\ MapIdle /\ GnInit /\ GateIdle /\ MvIdle
          /\ PackIdle
SpecSBAB == InitSBAB /\ [][SbNext]_vars

\* mapPagesToStudents alone, called once with any of the arguments MapInputs holds
InitMap == world = "pagemap" /\ OcrInit /\ SbInit /\ MapInit /\ GnInit /\ GateIdle /\ MvIdle
          /\ PackIdle
SpecMap == InitMap /\ [][MapNext]_vars

\* the full-roster build alone: one request
InitGreen == world = "green" /\ OcrInit /\ SbInit /\ MapIdle /\ GnInit /\ GateIdle /\ MvIdle
          /\ PackIdle
SpecGreen == InitGreen /\ [][GnNext]_vars

\* isMeaningful alone, called once with any of the arguments GateArgs holds
InitGate == world = "gate" /\ OcrInit /\ SbInit /\ MapIdle /\ GnInit /\ GateInit /\ MvIdle
          /\ PackIdle
SpecGate == InitGate /\ [][GateNext]_vars

\* the merge of the variants alone, called once with any of MergeInputs
InitMerge == world = "merge" /\ OcrInit /\ SbInit /\ MapIdle /\ GnInit /\ GateIdle /\ MvInit
             /\ PackIdle
SpecMerge == InitMerge /\ [][MvNext]_vars

\* /build-graded-pack alone: one request
InitPack == world = "pack" /\ OcrInit /\ SbInit /\ MapIdle /\ GnInit /\ GateIdle /\ MvIdle
            /\ PackInit
SpecPack == InitPack /\ [][PackNext]_vars

\* ------------------------------------------------------------------------
\* Properties of the /process-quiz/:id endpoint
\* ------------------------------------------------------------------------
Others(r) == Reqs \ {r}
NoneHolding == \A r \in Reqs : ~Holding(r)
IsNeutral(ctx) ==
  /\ ctx.firstIsSolution = FALSE
  /\ ctx.pagesPerStudent = 1
  /\ Field(ctx, "quizTitle") = None
  /\ Field(ctx, "section") = None
InVlm(r) == pc[r] = "cascade" /\ ad[r].name \in {"openai", "gemini"}
\* the context a request inside a vision-model adapter has read for its page
HasRead(r) == InVlm(r) /\ Field(ad[r], "ctxRead") # None

\* C1: at most one request is between a successful acquireOcrLock and its
\* releaseOcrLock; while one request is there, every other request that has
\* arrived and not finished is still in the poll loop of acquireOcrLock.
C1_MutualExclusion ==
  \A r \in Reqs : Holding(r) => \A o \in Others(r) : pc[o] \in {"idle", "sleep", "done"}
\* one request runs its cascade while the other one polls the lock
C1_Witness ==
  \E r \in Reqs : pc[r] = "cascade" /\ \E o \in Others(r) : pc[o] = "sleep"

\* C2: every read of CURRENT_OCR_CTX by ocrWithOpenAIOCR or ocrWithGeminiOCR
\* returns the values the reading request wrote from its own quiz row, and the
\* header rules of the page are computed from them.
C2_OwnContextRead ==
  \A r \in Reqs :
    HasRead(r) =>
      /\ ad[r].ctxRead = Some(QuizCtx(QuizRow[quizId[r]]))
      /\ ad[r].hdr = Some(HeaderRules(QuizCtx(QuizRow[quizId[r]]), ad[r].idx))
\* a request reads the context for the second page of quiz q2 after a run for
\* quiz q1 has stored its text, while the other request polls the lock
C2_Witness ==
  \E r \in Reqs :
    /\ HasRead(r) /\ ad[r].idx = 1 /\ quizId[r] = "q2"
    /\ \E o \in Others(r) : pc[o] = "sleep"

\* C3: the lock is released on every exit path of the endpoint: OCR_LOCKED is
\* TRUE exactly while some request is between its acquire and its response, so
\* it is FALSE when no request is in flight and a finished request has left
\* nothing locked, whatever its response was.
C3_LockReleased ==
  /\ OCR_LOCKED <=> \E r \in Reqs : Holding(r)
  /\ (\A r \in Reqs : ~InFlight(r)) => ~OCR_LOCKED
\* both requests have ended, one in the catch block and one on an early 400
C3_Witness ==
  /\ ~OCR_LOCKED
  /\ \E r \in Reqs :
       /\ pc[r] = "done" /\ resp[r].status = 500
       /\ \E o \in Others(r) : pc[o] = "done" /\ resp[o].status = 400

\* C4: the context is neutral whenever no request holds the lock, and a run
\* that populated it has reset it by the time it issues the update.
C4_ContextNeutral ==
  /\ NoneHolding => IsNeutral(CURRENT_OCR_CTX)
  /\ \A r \in Reqs : pc[r] = "update" => IsNeutral(CURRENT_OCR_CTX)
\* a run whose adapters all failed has ended with an error and nobody holds
\* the lock: the context is the reset one (not the initial one)
C4_Witness ==
  /\ NoneHolding
  /\ CURRENT_OCR_CTX = NeutralCtx
  /\ \E r \in Reqs : pc[r] = "done" /\ resp[r].status = 500 /\ resp[r].error = "update failed"

\* the adapter order the specification gives for an engine mode
ClaimedOrder(e) ==
  IF e = "vision-pdf" THEN <<"visionPdf", "images", "tesseract">>
  ELSE IF e = "images" THEN <<"images", "tesseract">>
  ELSE IF e = "tesseract" THEN <<"tesseract">>
  ELSE IF e = "openai-ocr" THEN <<"openai", "tesseract">>
  ELSE IF e = "gemini-ocr" THEN <<"gemini", "tesseract">>
  ELSE <<"pdfParse", "visionPdf", "openai", "gemini", "images", "tesseract">>
Exhausted(r) ==
  /\ Len(calls[r]) = Len(ClaimedOrder(engine[r]))
  /\ \A i \in 1..Len(calls[r]) : calls[r][i].ok = Some(FALSE)

\* C5: the adapters a run has invoked are an initial part of the order of its
\* engine mode, each adapter at most once; every adapter but the last one
\* returned a non-meaningful text; during the cascade exactly the last one is
\* running; the cascade is over only when the last one returned a meaningful
\* text or the order is used up.
C5_CascadeOrder ==
  \A r \in Reqs :
    LET c == calls[r]
        claimed == ClaimedOrder(engine[r])
    IN /\ Len(c) <= Len(claimed)
       /\ \A i \in 1..Len(c) : c[i].name = claimed[i]
       /\ \A i, j \in 1..Len(c) : c[i].name = c[j].name => i = j
       /\ \A i \in 1..(Len(c) - 1) : c[i].ok = Some(FALSE)
       /\ pc[r] = "cascade" => Len(c) >= 1 /\ c[Len(c)].ok = None /\ ad[r].name = c[Len(c)].name
       /\ pc[r] = "update" =>
            /\ Len(c) >= 1
            /\ c[Len(c)].ok # None
            /\ c[Len(c)].ok = Some(TRUE) \/ Len(c) = Len(claimed)
       /\ pc[r] \notin {"cascade", "update"} => c = <<>>
\* an auto run stopped at its fourth adapter, whose text was the first meaningful one
C5_Witness ==
  \E r \in Reqs :
    /\ pc[r] = "update" /\ engine[r] = "auto"
    /\ Len(calls[r]) = 4 /\ calls[r][4].ok = Some(TRUE)

C7_AdapterFailureContained ==
  /\ \A r \in Reqs :
       handed[r].threw =>
         /\ handed[r].text = <<>>
         /\ pc[r] \in {"cascade", "update"}
         /\ pc[r] = "update" => Len(calls[r]) = Len(ClaimedOrder(engine[r]))
  /\ \A r \in Reqs :
       (pc[r] = "done" /\ resp[r].status = 500) =>
         resp[r].error \in {"Failed to download quiz PDF", "update failed"}
\* the first adapter of an auto run failed and the second one is running
C7_Witness ==
  \E r \in Reqs :
    /\ pc[r] = "cascade" /\ handed[r].threw
    /\ Len(calls[r]) = 2 /\ ad[r].name = "visionPdf"

\* C8 (as stated): every file an image-based adapter created is gone when the
\* adapter has returned, whatever happened inside it.
C8_NoFilesLeft ==
  \A f \in files : \E r \in Reqs : pc[r] = "cascade" /\ ad[r].name = f.ad

\* ------------------------------------------------------------------------
\* Properties of the composite build
\* ------------------------------------------------------------------------
FlagSet == Get(quiz).read_first_paper_is_solution # Some(FALSE)
\* the student_name of a mapped entry, lower-cased, starts with a reserved prefix
Reserved(m) ==
  LET n == toLowerCase(OrEmpty(m.student.student_name))
      Begins(p) == Len(n) >= Len(p) /\ \A i \in 1..Len(p) : n[i] = p[i]
  IN Begins(<<"u","n","k","n","o","w","n","_">>)
       \/ Begins(<<"s","o","l","u","t","i","o","n","_","p","a","p","e","r","_">>)
\* the entry the Solution page is claimed to come from
ClaimedSolution(mapped) ==
  IF \E i \in 1..Len(mapped) : Reserved(mapped[i])
  THEN mapped[CHOOSE i \in 1..Len(mapped) :
                Reserved(mapped[i]) /\ \A j \in 1..(i - 1) : ~Reserved(mapped[j])]
  ELSE mapped[1]

\* C9: with the solution flag set, the Solution page is the representative page
\* of the first mapped entry whose lower-cased student_name starts with
\* "unknown_" or "solution_paper_", and of the first mapped entry when no entry
\* matches; the output document starts with that page and that entry's record.
C9_SolutionPage ==
  (selection.made /\ FlagSet /\ selection.mapped # <<>>) =>
    /\ selection.solutionIdx = Some(ClaimedSolution(selection.mapped).pageIndex)
    /\ order # <<>> =>
         order[1] = [label |-> "Solution",
                     page |-> ClaimedSolution(selection.mapped).pageIndex,
                     student |-> ClaimedSolution(selection.mapped).student]
\* a built document whose Solution page is the block of the second record, the
\* first record being no sentinel and the second one a mixed-case sentinel
C9_Witness ==
  /\ sbPc = "done" /\ sbResp.status = 200 /\ FlagSet
  /\ Len(selection.mapped) >= 2
  /\ ~Reserved(selection.mapped[1]) /\ Reserved(selection.mapped[2])
  /\ selection.solutionIdx = Some(2)
  /\ order[1].page = 2

\* the ranking pool of a selection
PoolOf(sel) ==
  IF sel.solutionIdx = None THEN sel.mapped
  ELSE SelectSeq(sel.mapped, LAMBDA m : m.pageIndex # Get(sel.solutionIdx))
ClaimedScore(m) == IF m.student.total_score = None THEN 0 ELSE Get(m.student.total_score)
\* the place of entry i of the pool in the order by score descending, ties in array order
RankOf(pool, i) ==
  1 + Cardinality({j \in 1..Len(pool) :
                      \/ ClaimedScore(pool[j]) > ClaimedScore(pool[i])
                      \/ ClaimedScore(pool[j]) = ClaimedScore(pool[i]) /\ j < i})
PageOfRank(pool, k) == pool[CHOOSE i \in 1..Len(pool) : RankOf(pool, i) = k].pageIndex

\* C10: for a non-empty pool, Best is the page of rank 1, Low the page of the
\* last rank and Average the page at index floor(poolSize/2) of the order by
\* total_score descending (missing = 0, ties in array order); scores
\* [40,90,10], one page per student, flag false: Best 1, Average 0, Low 2.
C10_Ranking ==
  selection.made =>
    LET pool == PoolOf(selection)
        n == Len(pool)
    IN /\ n >= 1 =>
            /\ selection.bestIdx = PageOfRank(pool, 1)
            /\ selection.lowIdx = PageOfRank(pool, n)
            /\ selection.avgIdx = PageOfRank(pool, (n \div 2) + 1)
       /\ ( /\ GradedOf(Get(quiz)) = <<StAli, StBo, StNoName>>
            /\ ~FlagSet
            /\ Get(quiz).no_of_pages = Some(1)
            /\ pageCount = 3 ) =>
            /\ selection.bestIdx = 1
            /\ selection.avgIdx = 0
            /\ selection.lowIdx = 2
\* the document of the example is built: Best page 1, Avg page 0, Low page 2
C10_Witness ==
  /\ sbPc = "done" /\ sbResp.status = 200
  /\ GradedOf(Get(quiz)) = <<StAli, StBo, StNoName>>
  /\ ~FlagSet /\ Get(quiz).no_of_pages = Some(1) /\ pageCount = 3
  /\ [i \in 1..Len(order) |-> <<order[i].label, order[i].page>>]
       = << <<"Best", 1>>, <<"Avg", 0>>, <<"Low", 2>> >>

\* the representative pages of a mapped array, and the three ranked picks
PagesOf(mapped) == {mapped[i].pageIndex : i \in 1..Len(mapped)}
Picks(sel) == {sel.bestIdx, sel.avgIdx, sel.lowIdx}

\* C11: with the solution flag set and at least two mapped students, none of
\* Best, Average, Low is the Solution page: the three picks are representative
\* pages of the other mapped students. Four students, two pages each, eight
\* pages, sentinel on record 0: Solution is page 0 and the picks lie in {2,4,6}.
C11_SolutionExcluded ==
  (selection.made /\ FlagSet /\ Len(selection.mapped) >= 2) =>
    /\ selection.solutionIdx # None
    /\ Get(selection.solutionIdx) \in PagesOf(selection.mapped)
    /\ Picks(selection) \subseteq PagesOf(selection.mapped) \ selection.solutionIdx
    /\ ( /\ Len(GradedOf(Get(quiz))) = 4
         /\ Reserved(selection.mapped[1])
         /\ Get(quiz).no_of_pages = Some(2)
         /\ pageCount = 8 ) =>
         /\ selection.solutionIdx = Some(0)
         /\ Picks(selection) \subseteq {2, 4, 6}
\* the document of the four-student example is built: the sentinel record has
\* no score, the three others tie, and the picks are pages 2, 4 and 6
C11_Witness ==
  /\ sbPc = "done" /\ sbResp.status = 200 /\ FlagSet
  /\ GradedOf(Get(quiz)) = <<StUnknown, StAli, StAli, StAli>>
  /\ Get(quiz).no_of_pages = Some(2) /\ pageCount = 8
  /\ [i \in 1..Len(order) |-> <<order[i].label, order[i].page>>]
       = << <<"Solution", 0>>, <<"Best", 2>>, <<"Avg", 4>>, <<"Low", 6>> >>

\* C12: with the first-paper-is-solution flag false the selection has no
\* solution index, the output holds exactly Best, Avg, Low in that order, and
\* the three picks are ranked over every mapped student, page 0 included.
C12_NoSolutionPage ==
  (selection.made /\ ~FlagSet) =>
    /\ selection.solutionIdx = None
    /\ order # <<>> => [i \in 1..Len(order) |-> order[i].label] = <<"Best", "Avg", "Low">>
    /\ selection.mapped # <<>> =>
         /\ selection.bestIdx = PageOfRank(selection.mapped, 1)
         /\ selection.lowIdx = PageOfRank(selection.mapped, Len(selection.mapped))
         /\ selection.avgIdx = PageOfRank(selection.mapped, (Len(selection.mapped) \div 2) + 1)
\* flag false, record 0 carries a sentinel name and the top score: the built
\* document has three pages and Best is page 0
C12_Witness ==
  /\ sbPc = "done" /\ sbResp.status = 200 /\ ~FlagSet
  /\ Len(selection.mapped) >= 2 /\ Reserved(selection.mapped[1])
  /\ Len(order) = 3 /\ order[1] = [label |-> "Best", page |-> 0, student |-> StSolution]

\* C13: with exactly one mapped student and the solution flag set the ranking
\* pool is empty, Solution, Best, Average and Low are all that student's page,
\* and building the document does not throw: its four pages carry that
\* student's page and record (only the upload can still fail).
C13_SingleStudent ==
  (selection.made /\ FlagSet /\ Len(selection.mapped) = 1) =>
    LET only == selection.mapped[1]
    IN /\ PoolOf(selection) = <<>>
       /\ selection.solutionIdx = Some(only.pageIndex)
       /\ Picks(selection) = {only.pageIndex}
       /\ sbPc = "done" /\ sbResp.status = 500 => sbResp.error = "upload failed"
       /\ sbPc \in {"upload", "done"} =>
            order = [i \in 1..4 |->
                       [label |-> <<"Solution", "Best", "Avg", "Low">>[i],
                        page |-> only.pageIndex, student |-> only.student]]
\* a three-record quiz whose PDF has room for one block of two pages only: the
\* document is built and uploaded with four times page 0
C13_Witness ==
  /\ sbPc = "done" /\ sbResp.status = 200 /\ FlagSet
  /\ Len(GradedOf(Get(quiz))) = 3 /\ Len(selection.mapped) = 1
  /\ [i \in 1..Len(order) |-> order[i].page] = <<0, 0, 0, 0>>
  /\ uploaded = {order}

\* the block size the quiz row is claimed to give
ClaimedBlock(row) ==
  IF row.no_of_pages = None THEN 1
  ELSE IF Get(row.no_of_pages) <= 0 THEN 1
  ELSE Get(row.no_of_pages)

\* C14: the block mapping has min(studentCount, floor(pageCount/pagesPerStudent))
\* entries, entry i carrying index i, record graded[i] and page i*pagesPerStudent;
\* a null or non-positive no_of_pages counts as 1. Ten pages, two per student,
\* five records: pages 0, 2, 4, 6, 8.
C14_BlockMapping ==
  selection.made =>
    LET row == Get(quiz)
        graded == GradedOf(row)
        p == ClaimedBlock(row)
        m == selection.mapped
        n == IF Len(graded) <= pageCount \div p THEN Len(graded) ELSE pageCount \div p
    IN /\ Len(m) = n
       /\ \A i \in 1..Len(m) :
            m[i] = [index |-> i - 1, pageIndex |-> (i - 1) * p, student |-> graded[i]]
       /\ (pageCount = 10 /\ row.no_of_pages = Some(2) /\ Len(graded) = 5) =>
            [i \in 1..Len(m) |-> m[i].pageIndex] = <<0, 2, 4, 6, 8>>
\* the example is selected: five records, ten pages, two pages per student
C14_Witness ==
  /\ selection.made
  /\ pageCount = 10 /\ Get(quiz).no_of_pages = Some(2) /\ Len(GradedOf(Get(quiz))) = 5
  /\ [i \in 1..Len(selection.mapped) |-> selection.mapped[i].pageIndex] = <<0, 2, 4, 6, 8>>

\* C19: when the quiz has no graded results (graded_json null, no array, or an
\* empty array) the composite build ends with an exception: no document is
\* ever uploaded, the upload is never started, and the request that has ended
\* was answered with status 500.
C19_NoGradedResults ==
  (quiz # None /\ GradedOf(Get(quiz)) = <<>>) =>
    /\ uploaded = {}
    /\ order = <<>>
    /\ sbPc # "upload"
    /\ sbPc = "done" => sbResp.status = 500 /\ sbResp.success = FALSE
\* a quiz whose graded_json is an object and no array: the build threw on
\* mapped[0].student and the route answered 500
C19_Witness ==
  /\ quiz # None /\ Get(quiz).graded_json.kind = "object"
  /\ selection.made /\ selection.mapped = <<>>
  /\ sbPc = "done" /\ sbResp.status = 500
  /\ sbResp.error = "Cannot read properties of undefined"
  /\ uploaded = {}

\* ------------------------------------------------------------------------
\* The sentinel names between the OCR instructions and the composite build
\* ------------------------------------------------------------------------
\* the solution detector of the composite build finds a record of that name
\* behind an ordinary record
Detected(name) ==
  pickSolutionIndex(<<[index |-> 0, pageIndex |-> 0, student |-> StAli],
                      [index |-> 1, pageIndex |-> 1, student |-> Student(Some(name), None)]>>) = 1

\* C18 (as stated): every sentinel name an instruction page of the
\* vision-language-model adapters carries is recognised by pickSolutionIndex:
\* the solution sentinel starts with "solution_paper_" and the unknown sentinel
\* with "unknown_".
C18_SentinelsRecognised ==
  \A r \in Reqs :
    (HasRead(r) /\ Get(ad[r].hdr).kind = "header") =>
      LET h == Get(ad[r].hdr)
      IN /\ Detected(h.value)
         /\ StartsWith(h.value, IF h.solution THEN SolutionPrefix ELSE UnknownPrefix)

\* ------------------------------------------------------------------------
\* The page mapping helper
\* ------------------------------------------------------------------------
\* the call of mapPagesToStudents has returned
Returned == mapRet # None

\* the lists of a split, one after the other
RECURSIVE Flatten(_)
Flatten(lists) == IF lists = <<>> THEN <<>> ELSE Head(lists) \o Flatten(Tail(lists))

Sizes(lists) == [i \in 1..Len(lists) |-> Len(lists[i])]

\* C15: every evenSplit(pageCount, n) a call of mapPagesToStudents makes (there
\* pageCount >= 0 and n > 0) returns n lists, the first pageCount mod n of them
\* one longer than the others, of pageCount pages in all, which put one after
\* the other are 0, 1, ..., pageCount - 1; evenSplit(7, 3) has the sizes 3, 2, 2.
C15_EvenSplit ==
  (Returned /\ mapLocals.split # None) =>
    LET c     == Get(mapLocals.split)
        lists == c.lists
    IN /\ c.pageCount >= 0 /\ c.n > 0
       /\ Len(lists) = c.n
       /\ \A i, j \in 1..c.n : Len(lists[i]) - Len(lists[j]) <= 1
       /\ \A i \in 1..c.n :
            Len(lists[i]) = (c.pageCount \div c.n) + (IF i <= c.pageCount % c.n THEN 1 ELSE 0)
       /\ Len(Flatten(lists)) = c.pageCount
       /\ Flatten(lists) = [k \in 1..c.pageCount |-> k - 1]
       /\ (c.pageCount = 7 /\ c.n = 3) => Sizes(lists) = <<3, 2, 2>>

\* three students without a header to go by share seven pages 3, 2, 2
C15_Witness ==
  /\ Returned
  /\ mapLocals.split = Some([pageCount |-> 7, n |-> 3,
                             lists |-> <<<<0, 1, 2>>, <<3, 4>>, <<5, 6>>>>])
  /\ Len(Get(mapRet)) = 3

\* C16: every page_indices list mapPagesToStudents returns holds integers only,
\* each at least 0 and below pageCount, in strictly ascending order (so none
\* twice), whatever the pageCount, the students, their page_indices and the
\* page_texts.
C16_IndicesNormalized ==
  Returned =>
    \A i \in 1..Len(Get(mapRet)) :
      LET indices == Get(mapRet)[i].page_indices
      IN /\ \A k \in 1..Len(indices) :
              /\ indices[k].type = "number" /\ indices[k].num = "int"
              /\ indices[k].whole >= 0
              /\ indices[k].whole < mapArgs.pageCount
         /\ \A k \in 1..(Len(indices) - 1) : indices[k].whole < indices[k + 1].whole

\* two students of a 2-page document come with lists of their own: 1, 0, 1 is
\* returned as 0, 1, and of 9, -1, 0.5, "0", 2 nothing is left
C16_Witness ==
  /\ Returned
  /\ mapArgs.pageCount = 2
  /\ mapArgs.students # None
  /\ Len(Get(mapArgs.students)) = 2
  /\ Get(mapArgs.students)[1].page_indices = Some(<<Num(1), Num(0), Num(1)>>)
  /\ Get(mapArgs.students)[2].page_indices
       = Some(<<Num(MaxMapPages + 2), Num(0 - 1), Frac(0), Str(0), Num(2)>>)
  /\ Get(mapRet)[1].page_indices = <<Num(0), Num(1)>>
  /\ Get(mapRet)[2].page_indices = <<>>

\* the text has the header the inference looks for
HasHeader(text) ==
  LET t == toLowerCase(OrEmpty(text))
  IN Includes(t, NameMark) /\ Includes(t, RollMark)

\* the call is the one of two page texts, the first with a header and the
\* second without, for two students of a 2-page document who do not all come
\* with page_indices, and it has returned
HeaderOnFirstOfTwo ==
  /\ Returned
  /\ mapArgs.pageCount = 2
  /\ mapArgs.page_texts # None
  /\ Len(Get(mapArgs.page_texts)) = 2
  /\ HasHeader(Get(mapArgs.page_texts)[1])
  /\ ~HasHeader(Get(mapArgs.page_texts)[2])
  /\ mapArgs.students # None
  /\ Len(Get(mapArgs.students)) = 2
  /\ \E i \in 1..2 : ~Provided(Get(mapArgs.students)[i])

\* the pages the inferred blocks start with
StartsOf(blocks) == {blocks[b][1] : b \in {b \in 1..Len(blocks) : blocks[b] # <<>>}}

PagesGiven(i) == {Get(mapRet)[i].page_indices[k].whole : k \in 1..Len(Get(mapRet)[i].page_indices)}

\* C17 (as stated): of two page texts with a header on page 0 only, the inference
\* marks page 0 alone as a block start, and student 2 of two gets the
\* headerless page 1: the list of student 2 holds page 1 and is not empty.
C17_HeaderlessPageSpills ==
  HeaderOnFirstOfTwo =>
    /\ StartsOf(Get(mapLocals.inferredBlocks)) = {0}
    /\ 1 \in PagesGiven(2)
    /\ Get(mapRet)[2].page_indices # <<>>

\* C17 (amended): of two page texts with a header on page 0 only, the inference
\* marks page 0 alone as a block start and its one block runs to the end of the
\* texts, pages 0 and 1; student 1 of two gets both pages, no page is left
\* uncovered, and student 2 gets an empty list.
C17_HeaderlessPageStays ==
  HeaderOnFirstOfTwo =>
    /\ StartsOf(Get(mapLocals.inferredBlocks)) = {0}
    /\ Get(mapLocals.inferredBlocks) = <<<<0, 1>>>>
    /\ Get(mapRet)[1].page_indices = <<Num(0), Num(1)>>
    /\ mapLocals.split = Some([pageCount |-> 0, n |-> 1, lists |-> <<<<>>>>])
    /\ Get(mapRet)[2].page_indices = <<>>

\* the call of the scenario: "Name: J\nRoll: 1" and "Q1", two students without
\* page_indices
C17_Witness ==
  /\ HeaderOnFirstOfTwo
  /\ mapArgs.page_texts = Some(<<Some(TxtHeader), Some(TxtPlain)>>)
  /\ \A i \in 1..2 : Get(mapArgs.students)[i].page_indices = None
  /\ PagesGiven(1) = {0, 1}
  /\ PagesGiven(2) = {}

Ends(r) == pc[r] # "done" /\ pc'[r] = "done"

\* C21: a step that ends a request with success puts the text of that run, the
\* one it answers with, in the place of the quiz's extracted_text; every other
\* step, the error responses among them (invalid id, invalid engine, quiz not
\* found, failed download), leaves every extracted_text as it was. So the column
\* holds the text of the last successful run.
C21_FullOverwrite ==
  [][/\ \A r \in Reqs :
          (Ends(r) /\ resp'[r].status = 200) =>
            extracted_text' = [extracted_text EXCEPT ![quizId[r]] = resp'[r].text]
     /\ (~\E r \in Reqs : Ends(r) /\ resp'[r].status = 200) =>
          extracted_text' = extracted_text]_vars

\* two runs stored a text for quiz q1, one after the other, a third request
\* being impossible: the column holds one text, not two
C21_Witness ==
  /\ \A r \in Reqs : pc[r] = "done" /\ resp[r].status = 200 /\ resp[r].text # <<>>
  /\ extracted_text["q2"] = <<>>
  /\ \A r \in Reqs : extracted_text["q1"] = resp[r].text

\* ------------------------------------------------------------------------
\* The gate of the cascade
\* ------------------------------------------------------------------------
\* the number of characters of [A-Za-z0-9] in the argument of the call
AlnumCount ==
  LET s == OrEmpty(gateArg)
  IN Cardinality({i \in 1..Len(s) : s[i] \in Lower \cup Upper \cup Digit})

\* C22: isMeaningful(s) is true exactly when s has at least 30 characters of
\* [A-Za-z0-9], whatever else it holds; 29 give false, 30 give true, and the
\* empty and the missing string give false as any string without them does.
C22_GateCountsAlnum ==
  gateRet # None =>
    /\ Get(gateRet) = (AlnumCount >= 30)
    /\ AlnumCount = 29 => Get(gateRet) = FALSE
    /\ AlnumCount = 30 => Get(gateRet) = TRUE
    /\ (gateArg = None \/ gateArg = Some(<<>>)) => Get(gateRet) = FALSE

\* thirty letters among six characters that do not count pass the gate
C22_Witness ==
  /\ gateRet = Some(TRUE)
  /\ AlnumCount = 30
  /\ Len(Get(gateArg)) = 36

\* ------------------------------------------------------------------------
\* The page lists a caller provides
\* ------------------------------------------------------------------------
\* C23 (as stated): every student who comes with a non-empty page_indices list
\* gets that list back sanitized (unique, in range, ascending), whether or not
\* the other students come with one.
C23_ProvidedKept ==
  (Returned /\ mapArgs.students # None) =>
    \A i \in 1..Len(Get(mapArgs.students)) :
      LET s == Get(mapArgs.students)[i]
      IN Provided(s) =>
           /\ i <= Len(Get(mapRet))
           /\ Get(mapRet)[i].page_indices
                = normalizeIndices(Get(s.page_indices), Max(0, mapArgs.pageCount))

Orders(n) == {p \in [1..n -> 1..n] : \A i, j \in 1..n : p[i] = p[j] => i = j}
Reordered(bests, p) == [i \in 1..Len(bests) |-> bests[p[i]]]

\* C25 (as claimed): the merged page text is the same whatever the order the
\* variants' results are listed in.
C25_AnyOrderSameMerge ==
  mergeRet # None =>
    \A p \in Orders(Len(mergeArg)) :
      MergeVariants(Reordered(mergeArg, p)) = Get(mergeRet)

\* no two variants of the page have different texts of the same score
NoTies(bests) ==
  \A i, j \in 1..Len(bests) :
    (bests[i] # <<>> /\ bests[j] # <<>> /\ VariantScore(bests[i]) = VariantScore(bests[j]))
      => bests[i] = bests[j]

\* C25 (amended): when no two variants have different texts of the same score,
\* the merged page text is the same whatever the order the variants' results
\* are listed in.
C25_UntiedOrderSameMerge ==
  (mergeRet # None /\ NoTies(mergeArg)) =>
    \A p \in Orders(Len(mergeArg)) :
      MergeVariants(Reordered(mergeArg, p)) = Get(mergeRet)

\* three variants of different scores were merged, the lowest listed first, and
\* the merged text has the two lines of the best and a line of the second
C25_Witness ==
  /\ mergeRet # None
  /\ mergeArg = <<<<"z", "z">>, LineA \o <<"\n">> \o LineB, LineA \o <<"\n">> \o LineC>>
  /\ Get(mergeRet) = LineA \o <<"\n">> \o LineC \o <<"\n">> \o LineB

\* ------------------------------------------------------------------------
\* C26: the pages of the full-roster document
\* ------------------------------------------------------------------------
\* C26: the uploaded full-roster document has exactly pageCount pages in source
\* order; page k is annotated exactly when k mod pagesPerStudent = 0, for the
\* graded record at index k / pagesPerStudent (student i at page
\* i * pagesPerStudent, as in the composite build); every other page is copied
\* without annotation, and no page is annotated for a student index that has no
\* graded record.
C26_FullRosterPages ==
  \A d \in gnStored :
    LET row    == Get(gnQuiz)
        p      == pagesPerStudent(row)
        graded == Get(gradedArray(row))
    IN /\ Len(d.pages) = gnPageCount
       /\ \A k \in 0..(gnPageCount - 1) :
            LET page == d.pages[k + 1]
            IN /\ page.src = k
               /\ (page.note # None) <=> (k % p = 0)
               /\ page.note # None =>
                    /\ Get(page.note).studentIdx = k \div p
                    /\ k = Get(page.note).studentIdx * p
                    /\ Get(page.note).studentIdx < Len(graded)
                    /\ Get(page.note).student = AnnotatedStudent(graded, k \div p)

\* ------------------------------------------------------------------------
\* C27: the pages asked to carry a header
\* ------------------------------------------------------------------------
\* C27: in both vision-language-model adapters page idx is sent with the
\* header instruction exactly when idx mod max(1, pagesPerStudent) = 0, that is,
\* when it is one of the pages 0, p, 2p, ...; it is told to use the solution
\* sentinel exactly when moreover the solution flag is set and idx = 0, and
\* else the unknown sentinel is its fallback; every other page is sent with the
\* instruction to return raw text without a header.
C27_HeaderOnBlockFirstPages ==
  \A r \in Reqs :
    HasRead(r) =>
      LET ctx == Get(ad[r].ctxRead)
          p   == IF ctx.pagesPerStudent >= 1 THEN ctx.pagesPerStudent ELSE 1
          idx == ad[r].idx
          h   == Get(ad[r].hdr)
      IN /\ ad[r].name \in {"openai", "gemini"}
         /\ h.kind \in {"header", "raw"}
         /\ (h.kind = "header") <=> (idx % p = 0)
         /\ (h.kind = "header") <=> (\E i \in 0..idx : idx = i * p)
         /\ h.kind = "header" =>
              /\ h.solution <=> (ctx.firstIsSolution /\ idx = 0)
              /\ h.solution => h.value = SentinelName(SolutionPrefix, ctx)
              /\ ~h.solution => h.value = SentinelName(UnknownPrefix, ctx)

\* the Gemini adapter reads the context for the second page of a quiz of two
\* pages per student and sends the page without the header instruction
C27_Witness ==
  \E r \in Reqs :
    /\ HasRead(r) /\ ad[r].name = "gemini" /\ ad[r].idx = 1
    /\ Get(ad[r].ctxRead).pagesPerStudent = 2
    /\ Get(ad[r].hdr).kind = "raw"

\* ------------------------------------------------------------------------
\* C28: the ranking pool of /build-graded-pack
\* ------------------------------------------------------------------------
\* the summaries the pack was built from
PackBuilt == packResp = Some(200) /\ packPicked # None

\* the grades rows hold the record of a student other than the solution paper
OtherStudentsGraded ==
  LET quizRow == Get(packQuiz)
  IN \E i \in 1..Len(quizRow.rows) :
       /\ quizRow.rows[i] # None
       /\ Get(quizRow.rows[i]) # Get(quizRow.graded)[1]

\* C28: when the solution flag is not false and quizzes.graded_json is a
\* non-empty array, its first record is the solution and is removed from the
\* ranking pool of the grades rows: whenever the rows hold the record of another
\* student, none of Best, Average and Low is the solution paper's record.
C28_SolutionOutOfPool ==
  (/\ PackBuilt
   /\ Get(packQuiz).flag # Some(FALSE)
   /\ Get(packQuiz).graded # None
   /\ Len(Get(Get(packQuiz).graded)) > 0
   /\ OtherStudentsGraded) =>
    LET picked == Get(packPicked)
        sol    == Get(Get(packQuiz).graded)[1]
    IN /\ Get(picked.solution).val = sol
       /\ Get(picked.best).val # sol
       /\ Get(picked.avg).val # sol
       /\ Get(picked.low).val # sol

\* ------------------------------------------------------------------------
\* C30: the mapping mapPagesToStudents derives
\* ------------------------------------------------------------------------
\* the call had to derive the mapping: a roster in which not every student
\* came with page_indices
Derived ==
  /\ Returned
  /\ mapArgs.students # None
  /\ \E i \in 1..Len(Get(mapArgs.students)) : ~Provided(Get(mapArgs.students)[i])

\* C30: when mapPagesToStudents derives the mapping itself, it returns exactly
\* one record per input student, in input order, and no page is in the
\* page_indices of two students, whether the lists come from the headers of the
\* page texts, from the spillover after fewer blocks than students, or from the
\* even split.
C30_OneRecordEachDisjoint ==
  Derived =>
    LET list == Get(mapArgs.students)
        ret  == Get(mapRet)
    IN /\ Len(ret) = Len(list)
       /\ \A i \in 1..Len(list) : ret[i].student_name = list[i].student_name
       /\ \A i, j \in 1..Len(ret) :
            i # j =>
              ~\E a \in 1..Len(ret[i].page_indices), b \in 1..Len(ret[j].page_indices) :
                 ret[i].page_indices[a] = ret[j].page_indices[b]

\* three students, one block of two pages found by its header, and the five
\* pages after it spilled over to the second and the third student
C30_Witness ==
  /\ Derived
  /\ Len(Get(mapRet)) = 3
  /\ mapLocals.inferredBlocks = Some(<<<<0, 1>>>>)
  /\ mapLocals.split # None
  /\ PagesGiven(1) = {0, 1}
  /\ PagesGiven(2) = {2, 3, 4}
  /\ PagesGiven(3) = {5, 6}

\* ------------------------------------------------------------------------
\* C29: waiting for the lock
\* ------------------------------------------------------------------------
\* the request of slot r polls the lock
Waiting(r) == pc[r] = "sleep"

\* every request that holds the lock eventually ends
HoldersEnd == \A o \in Reqs : Holding(o) ~> ~Holding(o)

\* C29 (as claimed): with the timers scheduled fairly and every lock holder
\* eventually ending its request, every request that waits in acquireOcrLock
\* eventually acquires the lock, also when other requests keep arriving.
C29_NoStarvation == HoldersEnd => \A r \in Reqs : Waiting(r) ~> Holding(r)

\* C29 (amended): with the timers scheduled fairly and every lock holder
\* eventually ending its request, a request that waits in acquireOcrLock
\* eventually acquires the lock if from some point on no further request
\* arrives in the other slots, that is, if the other slots stay answered.
C29_AcquiresOnceArrivalsStop ==
  \A r \in Reqs :
    (HoldersEnd /\ <>[](\A o \in Others(r) : pc[o] = "done")) => (Waiting(r) ~> Holding(r))

\* a request has acquired the lock and another one waits, after the text of an
\* earlier, third request was stored
C29_Witness ==
  \E r \in Reqs :
    /\ pc[r] = "validate"
    /\ \E o \in Others(r) : Waiting(o)
    /\ extracted_text["q2"] # <<>>

====
